---- MODULE Spec2Model ----
(***************************************************************************)
(* CosmoServer: the rule-code compilation pipeline (exec_utils.py) and the *)
(* rule lifecycle handlers (routes/rpc.py, startup.py).                    *)
(*                                                                         *)
(* Text is a sequence of one-character strings.  A rule source is a parsed *)
(* outline of a Python module: its top-level statements, each function     *)
(* with its parameters, its return annotation as written text and its      *)
(* body.  The scheduling engine (cosmo.rules.manager.RuleManager) and the  *)
(* plugin registry (cosmo.plugin.service.PluginService) are libraries      *)
(* outside the repository; they appear as the state the handlers read and  *)
(* change through their calls.                                             *)
(***************************************************************************)
EXTENDS Integers, Sequences, FiniteSets, TLC

VARIABLES utils,      \* PluginService._utils: the registered utility types
          call,       \* the last call of a compile entry point and its result
          rules,      \* persisted rule records, by rule id
          live,       \* task ids the RuleManager holds
          suspended,  \* task ids the RuleManager holds suspended
          phase,      \* "startup" until lifespan has run auto-install
          last,       \* the last request handled and its outcome
          inflight,   \* the suspend and resume requests handled step by step
          compiled    \* for each live task the sources its routines were built from

vars == <<utils, call, rules, live, suspended, phase, last, inflight, compiled>>

(***************************************************************************)
(* Bounds                                                                  *)
(***************************************************************************)
MaxSpaces == 1    \* spaces written at each gap of a return annotation
MaxStmts == 2     \* top-level statements of a generated source
MaxDepth == 2     \* nesting depth of a function body
MaxParams == 2    \* parameters of a generated function
MaxRules == 2     \* rule ids
MaxRequests == 2  \* suspend and resume requests handled step by step

(***************************************************************************)
(* Text                                                                    *)
(***************************************************************************)
Spelling(n) ==
    CASE n = "datetime" -> <<"d","a","t","e","t","i","m","e">>
      [] n = "timedelta" -> <<"t","i","m","e","d","e","l","t","a">>
      [] n = "AbstractCondition" ->
            <<"A","b","s","t","r","a","c","t","C","o","n","d","i","t","i","o","n">>
      [] n = "CosmoUtils" -> <<"C","o","s","m","o","U","t","i","l","s">>
      [] n = "UtilA" -> <<"U","t","i","l","A">>
      [] n = "UtilB" -> <<"U","t","i","l","B">>
      [] n = "None" -> <<"N","o","n","e">>
      [] n = "Optional" -> <<"O","p","t","i","o","n","a","l">>
      [] n = "int" -> <<"i","n","t">>
      [] n = "list" -> <<"l","i","s","t">>
      [] n = "|" -> <<"|">>
      [] n = "[" -> <<"[">>
      [] n = "]" -> <<"]">>

KnownNames ==
    {"datetime", "timedelta", "AbstractCondition", "CosmoUtils", "UtilA",
     "UtilB", "None", "Optional", "int", "list"}

UpperCase ==
    <<"A","B","C","D","E","F","G","H","I","J","K","L","M",
      "N","O","P","Q","R","S","T","U","V","W","X","Y","Z">>

LowerCase ==
    <<"a","b","c","d","e","f","g","h","i","j","k","l","m",
      "n","o","p","q","r","s","t","u","v","w","x","y","z">>

\* str.lower() on one character
LowerChar(c) ==
    IF \E i \in DOMAIN UpperCase : UpperCase[i] = c
    THEN LowerCase[CHOOSE i \in DOMAIN UpperCase : UpperCase[i] = c]
    ELSE c

\* str.lower()
Lower(s) == [i \in DOMAIN s |-> LowerChar(s[i])]

\* str.replace(" ", "")
RECURSIVE RemoveSpaces(_)
RemoveSpaces(s) ==
    IF s = <<>> THEN <<>>
    ELSE IF Head(s) = " " THEN RemoveSpaces(Tail(s))
    ELSE <<Head(s)>> \o RemoveSpaces(Tail(s))

\* the `in` operator on strings: sub occurs in s
Contains(s, sub) ==
    \E i \in 0..(Len(s) - Len(sub)) :
        \A j \in 1..Len(sub) : s[i + j] = sub[j]

(***************************************************************************)
(* ast.parse and ast.unparse on a return annotation                        *)
(***************************************************************************)
Punctuation == {"|", "[", "]"}

\* the identifier at the front of s
RECURSIVE TakeName(_)
TakeName(s) ==
    IF s = <<>> \/ Head(s) = " " \/ Head(s) \in Punctuation THEN <<>>
    ELSE <<Head(s)>> \o TakeName(Tail(s))

\* the tokens of s: spaces separate tokens and are dropped
RECURSIVE Tokenize(_)
Tokenize(s) ==
    IF s = <<>> THEN <<>>
    ELSE IF Head(s) = " " THEN Tokenize(Tail(s))
    ELSE IF Head(s) \in Punctuation
         THEN <<[k |-> "op", v |-> <<Head(s)>>]>> \o Tokenize(Tail(s))
    ELSE LET w == TakeName(s)
         IN <<[k |-> "name", v |-> w]>> \o Tokenize(SubSeq(s, Len(w) + 1, Len(s)))

IsOp(toks, c) == toks # <<>> /\ Head(toks).k = "op" /\ Head(toks).v = <<c>>

\* Each parser returns [ok, text, rest]: text is what ast.unparse writes for
\* the node that was read (a name as it is, a subscript without spaces, a
\* union with " | " between its operands).
RECURSIVE ParseUnion(_), ParseUnionRest(_, _), ParsePrimary(_), ParseTrailers(_, _)
ParseTrailers(text, toks) ==
    IF IsOp(toks, "[")
    THEN LET inner == ParseUnion(Tail(toks))
         IN IF inner.ok /\ IsOp(inner.rest, "]")
            THEN ParseTrailers(text \o <<"[">> \o inner.text \o <<"]">>,
                               Tail(inner.rest))
            ELSE [ok |-> FALSE, text |-> <<>>, rest |-> <<>>]
    ELSE [ok |-> TRUE, text |-> text, rest |-> toks]

ParsePrimary(toks) ==
    IF toks # <<>> /\ Head(toks).k = "name"
    THEN ParseTrailers(Head(toks).v, Tail(toks))
    ELSE [ok |-> FALSE, text |-> <<>>, rest |-> <<>>]

ParseUnionRest(text, toks) ==
    IF IsOp(toks, "|")
    THEN LET right == ParsePrimary(Tail(toks))
         IN IF right.ok
            THEN ParseUnionRest(text \o <<" ", "|", " ">> \o right.text, right.rest)
            ELSE [ok |-> FALSE, text |-> <<>>, rest |-> <<>>]
    ELSE [ok |-> TRUE, text |-> text, rest |-> toks]

ParseUnion(toks) ==
    LET left == ParsePrimary(toks)
    IN IF left.ok THEN ParseUnionRest(left.text, left.rest)
       ELSE [ok |-> FALSE, text |-> <<>>, rest |-> <<>>]

\* the annotation is an expression: the whole text must be read
AnnotationParses(s) ==
    LET p == ParseUnion(Tokenize(s)) IN p.ok /\ p.rest = <<>>

\* ast.unparse(node.returns) of the parsed annotation
Unparse(s) == ParseUnion(Tokenize(s)).text

\* the names an annotation mentions, as the evaluator looks them up
AnnotationNames(s) ==
    {n \in KnownNames : \E i \in DOMAIN Tokenize(s) :
        Tokenize(s)[i] = [k |-> "name", v |-> Spelling(n)]}

AnnotationHasUnknownName(s) ==
    \E i \in DOMAIN Tokenize(s) :
        /\ Tokenize(s)[i].k = "name"
        /\ \A n \in KnownNames : Tokenize(s)[i].v # Spelling(n)

(***************************************************************************)
(* Rule source: the outline ast.parse builds of a snippet                  *)
(***************************************************************************)
\* One statement.  kind: "def", "asyncdef", "class", "assign", "expr",
\* "import", "importfrom".  name: the name it binds.  callable: an assignment
\* binds a callable (a lambda).  raises: running the statement raises.
Stmt(kind, name, params, hasReturns, returns, body, raises, callable) ==
    [kind |-> kind, name |-> name, params |-> params, hasReturns |-> hasReturns,
     returns |-> returns, body |-> body, raises |-> raises, callable |-> callable]

\* One parameter.  kind: "positional", "var_positional", "keyword_only",
\* "var_keyword".  ann: the name written as its annotation.
Param(name, kind, hasDefault, hasAnn, ann) ==
    [name |-> name, kind |-> kind, hasDefault |-> hasDefault, hasAnn |-> hasAnn,
     ann |-> ann]

\* A source string: garbled when it is no Python at all.
Source(garbled, body) == [garbled |-> garbled, body |-> body]

\* ast.walk: breadth first, a node before its children
RECURSIVE Walk(_)
Walk(queue) ==
    IF queue = <<>> THEN <<>>
    ELSE <<Head(queue)>> \o Walk(Tail(queue) \o Head(queue).body)

\* ast.parse(code) succeeds
AstParses(code) ==
    /\ ~code.garbled
    /\ \A i \in DOMAIN Walk(code.body) :
          Walk(code.body)[i].hasReturns => AnnotationParses(Walk(code.body)[i].returns)

(***************************************************************************)
(* Objects and namespaces                                                  *)
(***************************************************************************)
\* A namespace maps a name to an object: what it is, the top-level
\* statement that bound it (0: pre-loaded, -1: a builtin) and, for a
\* pre-loaded or builtin class, which type it is.
Object(obj, stmt) == [obj |-> obj, stmt |-> stmt, type |-> "none"]

\* the class util_type, pre-loaded into a namespace
TypeObject(util_type) == [obj |-> "class", stmt |-> 0, type |-> util_type]

\* callable(item)
Callable(item) == item.obj \in {"class", "function", "coroutine_function"}

\* names every evaluation finds in builtins
Builtins == {"int", "list", "None"}

BuiltinObject(n) ==
    IF n = "None" THEN Object("value", -1)
    ELSE [obj |-> "class", stmt |-> -1, type |-> n]

\* the names the namespace starts with, each bound to the core type of that name
AllowListed == {"datetime", "timedelta", "AbstractCondition", "CosmoUtils"}

\* the utility class of the server's own plugin, cosmoserver's CosmoUtils
ServerCosmoUtils == "cosmoserver.CosmoUtils"

\* util_type.__name__: a type is named as it is identified, except the
\* server's own utility class, which is called CosmoUtils as the core type is
DeclaredName(util_type) == IF util_type = ServerCosmoUtils THEN "CosmoUtils" ELSE util_type

\* the dictionary literal alone, without the entries of the registered types
SafeNamespaceOfCoreTypes(registry) == [n \in AllowListed |-> TypeObject(n)]

\* the dictionary literal, then one assignment per registered type under the
\* type's __name__, which replaces an entry that has the same key (the
\* registered types of the model have pairwise distinct names)
_get_safe_namespace(registry) ==
    [n \in AllowListed \cup {DeclaredName(util_type) : util_type \in registry}
        |-> IF \E util_type \in registry : DeclaredName(util_type) = n
            THEN TypeObject(CHOOSE util_type \in registry : DeclaredName(util_type) = n)
            ELSE TypeObject(n)]

Resolves(n, ns) == n \in DOMAIN ns \/ n \in Builtins

LookUp(n, ns) == IF n \in DOMAIN ns THEN ns[n] ELSE BuiltinObject(n)

Bind(ns, n, o) == [m \in DOMAIN ns \cup {n} |-> IF m = n THEN o ELSE ns[m]]

\* evaluating a definition evaluates its annotations: a name that is neither
\* in the namespace nor a builtin raises NameError
DefRaises(st, ns) ==
    \/ \E i \in DOMAIN st.params :
          st.params[i].hasAnn /\ ~Resolves(st.params[i].ann, ns)
    \/ /\ st.hasReturns
       /\ \/ AnnotationHasUnknownName(st.returns)
          \/ \E n \in AnnotationNames(st.returns) : ~Resolves(n, ns)

\* exec(code, namespace): the statements of the module in order, from
\* statement i on.  [raised, ns]
RECURSIVE ExecFrom(_, _, _)
ExecFrom(code, i, ns) ==
    IF i > Len(code.body) THEN [raised |-> FALSE, ns |-> ns]
    ELSE LET st == code.body[i]
         IN CASE st.kind \in {"def", "asyncdef"} ->
                    IF DefRaises(st, ns) THEN [raised |-> TRUE, ns |-> ns]
                    ELSE ExecFrom(code, i + 1,
                            Bind(ns, st.name,
                                 Object(IF st.kind = "asyncdef"
                                        THEN "coroutine_function" ELSE "function", i)))
              [] st.kind = "class" ->
                    ExecFrom(code, i + 1, Bind(ns, st.name, Object("class", i)))
              [] st.kind = "assign" ->
                    IF st.raises THEN [raised |-> TRUE, ns |-> ns]
                    ELSE ExecFrom(code, i + 1,
                            Bind(ns, st.name,
                                 Object(IF st.callable THEN "function" ELSE "value", i)))
              [] st.kind = "expr" ->
                    IF st.raises THEN [raised |-> TRUE, ns |-> ns]
                    ELSE ExecFrom(code, i + 1, ns)
              [] st.kind \in {"import", "importfrom"} ->
                    ExecFrom(code, i + 1, Bind(ns, st.name, Object("module", i)))

\* exec inserts the builtins dictionary under __builtins__ into a globals
\* dictionary that has no such key, before it runs the code
Exec(code, namespace) ==
    ExecFrom(code, 1,
             IF "__builtins__" \in DOMAIN namespace THEN namespace
             ELSE Bind(namespace, "__builtins__", Object("dict", -1)))

\* the namespace in which top-level statement i of code is evaluated
NamespaceAt(code, i, namespace) ==
    Exec(Source(code.garbled, SubSeq(code.body, 1, i - 1)), namespace).ns

(***************************************************************************)
(* exec_utils.py: the validators                                           *)
(***************************************************************************)
\* The errors are all ValueError in the code; the model names each by the
\* message it carries.
HasImportNode(nodes) ==
    \E i \in DOMAIN nodes : nodes[i].kind \in {"import", "importfrom"}

\* the import scan over the module's own statements only (tree.body in
\* place of ast.walk(tree))
ValidateNoImportsTopLevelOnly(code) ==
    IF ~AstParses(code) THEN "InvalidSyntax"
    ELSE IF HasImportNode(code.body) THEN "ImportNotAllowed"
    ELSE "ok"

\* "ok", or the error raised
_validate_no_imports(code) ==
    IF ~AstParses(code) THEN "InvalidSyntax"
    ELSE IF HasImportNode(Walk(code.body)) THEN "ImportNotAllowed"
    ELSE "ok"

\* the check with the names exec itself adds left out of added_items
ValidateOnlyFunctionsIgnoringBuiltins(namespace_before, namespace_after) ==
    LET added_items ==
            (DOMAIN namespace_after \ DOMAIN namespace_before) \ {"__builtins__"}
    IN IF \E item_name \in added_items : ~Callable(namespace_after[item_name])
       THEN "NonFunctionTopLevel"
       ELSE "ok"

\* "ok", or the error raised
_validate_only_functions(namespace_before, namespace_after) ==
    LET added_items == DOMAIN namespace_after \ DOMAIN namespace_before
    IN IF \E item_name \in added_items : ~Callable(namespace_after[item_name])
       THEN "NonFunctionTopLevel"
       ELSE "ok"

\* the type a parameter's annotation evaluated to when the function was defined
TypeHint(param, ns) == LookUp(param.ann, ns)

\* plugin_service.util_for_type(type_hint) is not None
UtilForType(type_hint, registry) == type_hint.type \in registry

\* type_hint == CosmoUtils
IsCosmoUtils(type_hint) == type_hint.type = "CosmoUtils"

\* the loop over signature.parameters from parameter i on; seen_types holds
\* the types declared so far.  "ok", or the error raised
RECURSIVE ValidateParametersFrom(_, _, _, _, _)
ValidateParametersFrom(params, i, seen_types, ns, registry) ==
    IF i > Len(params) THEN "ok"
    ELSE LET param == params[i]
             type_hint == TypeHint(param, ns)
             ident == <<type_hint.type, type_hint.stmt>>
         IN IF param.kind \in {"keyword_only", "var_keyword"}
            THEN "KeywordParameterNotAllowed"
            ELSE IF param.hasDefault THEN "DefaultNotAllowed"
            ELSE IF ~param.hasAnn THEN "MissingTypeHint"
            ELSE IF type_hint.obj # "class" THEN "TypeHintNotAClass"
            ELSE IF ident \in seen_types THEN "DuplicateUtilityType"
            ELSE IF IsCosmoUtils(type_hint)
                 THEN ValidateParametersFrom(params, i + 1, seen_types \cup {ident},
                                             ns, registry)
            ELSE IF ~UtilForType(type_hint, registry)
                 THEN "UnregisteredUtility"
            ELSE ValidateParametersFrom(params, i + 1, seen_types \cup {ident},
                                        ns, registry)

\* func is the object bound by top-level statement func.stmt of code
_validate_function_parameters(code, func, namespace, registry) ==
    ValidateParametersFrom(code.body[func.stmt].params, 1, {},
                           NamespaceAt(code, func.stmt, namespace), registry)

\* the first FunctionDef node of that name that has a return annotation
FirstFunctionDef(nodes, function_name) ==
    LET hits == {i \in DOMAIN nodes : /\ nodes[i].kind = "def"
                                      /\ nodes[i].name = function_name
                                      /\ nodes[i].hasReturns}
    IN IF hits = {} THEN 0 ELSE CHOOSE i \in hits : \A j \in hits : i <= j

\* [found, text]: found is FALSE where the code returns None
_extract_return_type_annotation(code, function_name) ==
    IF ~AstParses(code) THEN [found |-> FALSE, text |-> <<>>]
    ELSE LET nodes == Walk(code.body)
             i == FirstFunctionDef(nodes, function_name)
         IN IF i = 0 THEN [found |-> FALSE, text |-> <<>>]
            ELSE [found |-> TRUE, text |-> Unparse(nodes[i].returns)]

(***************************************************************************)
(* exec_utils.py: the compile entry points                                 *)
(***************************************************************************)
\* A compile call ends with a routine or with an error.  trace lists the
\* steps the call took, in order: "validate" (ast.parse and the import
\* scan), "namespace", "exec", "only_functions", "lookup", then "async" or
\* "returns", then "parameters".
Routine(func, trace) == [kind |-> "routine", err |-> "none", func |-> func, trace |-> trace]

Failure(err, trace) == [kind |-> "error", err |-> err, func |-> 0, trace |-> trace]

\* a validator returned ("ok") and the call goes on, or raised
Checked(outcome, trace, next) == IF outcome = "ok" THEN next ELSE Failure(outcome, trace)

\* the literals the compile entry points compare the annotation with
TextAbstractCondition ==
    <<"A","b","s","t","r","a","c","t","C","o","n","d","i","t","i","o","n">>

TextDatetimeOrNone == <<"d","a","t","e","t","i","m","e"," ","|"," ","N","o","n","e">>

TextDatetimeOrNoneTight == <<"d","a","t","e","t","i","m","e","|","N","o","n","e">>

TextOptionalDatetime ==
    <<"O","p","t","i","o","n","a","l","[","d","a","t","e","t","i","m","e","]">>

TraceExec == <<"validate", "namespace", "exec">>

TraceOnlyFunctions == TraceExec \o <<"only_functions">>

TraceLookup == TraceOnlyFunctions \o <<"lookup">>

\* compile_action_function from the async check on
ActionChecked(code, registry, namespace_before, action_func) ==
    IF ~Callable(action_func) THEN Failure("NotCallable", TraceLookup)
    ELSE IF action_func.obj # "coroutine_function"
         THEN Failure("ActionMustBeAsync", TraceLookup \o <<"async">>)
    ELSE Checked(_validate_function_parameters(code, action_func, namespace_before,
                                               registry),
                 TraceLookup \o <<"async", "parameters">>,
                 Routine(action_func.stmt, TraceLookup \o <<"async", "parameters">>))

\* compile_action_function from the lookup of "action" on
ActionLookedUp(code, registry, namespace_before, namespace) ==
    IF "action" \notin DOMAIN namespace THEN Failure("MissingEntryPoint", TraceLookup)
    ELSE ActionChecked(code, registry, namespace_before, namespace["action"])

\* compile_action_function after exec, with no call of _validate_only_functions
ActionEvaluatedWithoutOnlyFunctions(code, registry, namespace_before, ran) ==
    IF ran.raised THEN Failure("ExecutionFailed", TraceExec)
    ELSE ActionLookedUp(code, registry, namespace_before, ran.ns)

\* compile_action_function after exec: ran is what exec did
ActionEvaluated(code, registry, namespace_before, ran) ==
    IF ran.raised THEN Failure("ExecutionFailed", TraceExec)
    ELSE Checked(_validate_only_functions(namespace_before, ran.ns), TraceOnlyFunctions,
                 ActionLookedUp(code, registry, namespace_before, ran.ns))

compile_action_function(code, registry) ==
    Checked(_validate_no_imports(code), <<"validate">>,
            ActionEvaluated(code, registry, _get_safe_namespace(registry),
                            Exec(code, _get_safe_namespace(registry))))

\* compile_trigger_function from the check of the return annotation on
TriggerChecked(code, registry, namespace_before, trigger_func, return_type) ==
    IF ~Callable(trigger_func) THEN Failure("NotCallable", TraceLookup)
    ELSE IF ~(return_type.found /\ return_type.text = TextAbstractCondition)
         THEN Failure("UnrecognizedReturnType", TraceLookup \o <<"returns">>)
    ELSE Checked(_validate_function_parameters(code, trigger_func, namespace_before,
                                               registry),
                 TraceLookup \o <<"returns", "parameters">>,
                 Routine(trigger_func.stmt, TraceLookup \o <<"returns", "parameters">>))

\* compile_trigger_function from the lookup of "trigger" on
TriggerLookedUp(code, registry, namespace_before, namespace) ==
    IF "trigger" \notin DOMAIN namespace THEN Failure("MissingEntryPoint", TraceLookup)
    ELSE TriggerChecked(code, registry, namespace_before, namespace["trigger"],
                        _extract_return_type_annotation(code, "trigger"))

\* compile_trigger_function after exec: ran is what exec did
TriggerEvaluated(code, registry, namespace_before, ran) ==
    IF ran.raised THEN Failure("ExecutionFailed", TraceExec)
    ELSE Checked(_validate_only_functions(namespace_before, ran.ns), TraceOnlyFunctions,
                 TriggerLookedUp(code, registry, namespace_before, ran.ns))

compile_trigger_function(code, registry) ==
    Checked(_validate_no_imports(code), <<"validate">>,
            TriggerEvaluated(code, registry, _get_safe_namespace(registry),
                             Exec(code, _get_safe_namespace(registry))))

\* compile_time_provider from the check of the return annotation on
TimeProviderChecked(code, registry, namespace_before, time_func, return_type) ==
    IF ~Callable(time_func) THEN Failure("NotCallable", TraceLookup)
    ELSE IF ~(/\ return_type.found
              /\ return_type.text \in {TextDatetimeOrNone, TextDatetimeOrNoneTight,
                                       TextOptionalDatetime})
         THEN Failure("UnrecognizedReturnType", TraceLookup \o <<"returns">>)
    ELSE Checked(_validate_function_parameters(code, time_func, namespace_before,
                                               registry),
                 TraceLookup \o <<"returns", "parameters">>,
                 Routine(time_func.stmt, TraceLookup \o <<"returns", "parameters">>))

\* compile_time_provider from the lookup of "trigger" on
TimeProviderLookedUp(code, registry, namespace_before, namespace) ==
    IF "trigger" \notin DOMAIN namespace THEN Failure("MissingEntryPoint", TraceLookup)
    ELSE TimeProviderChecked(code, registry, namespace_before, namespace["trigger"],
                             _extract_return_type_annotation(code, "trigger"))

\* compile_time_provider after exec: ran is what exec did
TimeProviderEvaluated(code, registry, namespace_before, ran) ==
    IF ran.raised THEN Failure("ExecutionFailed", TraceExec)
    ELSE Checked(_validate_only_functions(namespace_before, ran.ns), TraceOnlyFunctions,
                 TimeProviderLookedUp(code, registry, namespace_before, ran.ns))

compile_time_provider(code, registry) ==
    Checked(_validate_no_imports(code), <<"validate">>,
            TimeProviderEvaluated(code, registry, _get_safe_namespace(registry),
                                  Exec(code, _get_safe_namespace(registry))))

\* the literals detect_rule_type looks for
LitAbstractcondition ==
    <<"a","b","s","t","r","a","c","t","c","o","n","d","i","t","i","o","n">>

LitDatetimeBarNone == <<"d","a","t","e","t","i","m","e","|","n","o","n","e">>

LitDatetime == <<"d","a","t","e","t","i","m","e">>

LitNone == <<"n","o","n","e">>

LitOptionalDatetime ==
    <<"o","p","t","i","o","n","a","l","[","d","a","t","e","t","i","m","e","]">>

Kind(kind) == [kind |-> kind, err |-> "none", func |-> 0, trace |-> <<"extract">>]

\* the tests of detect_rule_type on the normalized annotation, without the
\* one for the Optional[datetime] spelling
ClassifyWithoutOptional(normalized) ==
    IF Contains(normalized, LitAbstractcondition) THEN Kind("trigger")
    ELSE IF \/ Contains(normalized, LitDatetimeBarNone)
            \/ Contains(normalized, LitDatetime) /\ Contains(normalized, LitNone)
         THEN Kind("timer")
    ELSE Failure("UnrecognizedReturnType", <<"extract">>)

\* the tests of detect_rule_type on the normalized annotation
Classify(normalized) ==
    IF Contains(normalized, LitAbstractcondition) THEN Kind("trigger")
    ELSE IF \/ Contains(normalized, LitDatetimeBarNone)
            \/ Contains(normalized, LitDatetime) /\ Contains(normalized, LitNone)
            \/ Contains(RemoveSpaces(normalized), LitOptionalDatetime)
         THEN Kind("timer")
    ELSE Failure("UnrecognizedReturnType", <<"extract">>)

\* detect_rule_type once the annotation is extracted
Detected(return_type) ==
    IF ~return_type.found THEN Failure("UnrecognizedReturnType", <<"extract">>)
    ELSE Classify(Lower(RemoveSpaces(return_type.text)))

\* [kind, err, func, trace]: kind is "trigger" or "timer", or "error" with
\* the error raised
detect_rule_type(trigger_code) ==
    Detected(_extract_return_type_annotation(trigger_code, "trigger"))

(***************************************************************************)
(* Sources the checks draw from                                            *)
(***************************************************************************)
RECURSIVE Spaces(_)
Spaces(k) == IF k = 0 THEN <<>> ELSE <<" ">> \o Spaces(k - 1)

\* form written out: gaps[i] spaces after the i-th token, gaps[0] before the first
RECURSIVE WrittenFrom(_, _, _)
WrittenFrom(form, gaps, i) ==
    IF i > Len(form) THEN <<>>
    ELSE Spelling(form[i]) \o Spaces(gaps[i]) \o WrittenFrom(form, gaps, i + 1)

Written(form, gaps) == Spaces(gaps[0]) \o WrittenFrom(form, gaps, 1)

\* every way of writing form with at most MaxSpaces spaces at each gap
Writings(form) == {Written(form, gaps) : gaps \in [0..Len(form) -> 0..MaxSpaces]}

FormAbstractCondition == <<"AbstractCondition">>

FormDatetimeOrNone == <<"datetime", "|", "None">>

FormOptionalDatetime == <<"Optional", "[", "datetime", "]">>

TimerForms == {FormDatetimeOrNone, FormOptionalDatetime}

OtherForms ==
    {<<"None", "|", "datetime">>, <<"list", "[", "AbstractCondition", "]">>,
     <<"int">>, <<"datetime">>, <<"datetime", "None">>}

ReturnForms == {FormAbstractCondition} \cup TimerForms \cup OtherForms

Positional(name, ann) == Param(name, "positional", FALSE, TRUE, ann)

AsyncActionDef(params) == Stmt("asyncdef", "action", params, FALSE, <<>>, <<>>, FALSE, FALSE)

SyncActionDef(params) == Stmt("def", "action", params, FALSE, <<>>, <<>>, FALSE, FALSE)

TriggerDef(params, text) == Stmt("def", "trigger", params, TRUE, text, <<>>, FALSE, FALSE)

ImportStmt == Stmt("import", "os", <<>>, FALSE, <<>>, <<>>, FALSE, FALSE)

ImportFromStmt == Stmt("importfrom", "path", <<>>, FALSE, <<>>, <<>>, FALSE, FALSE)

\* inner wrapped in depth function definitions
RECURSIVE Nested(_, _)
Nested(inner, depth) ==
    IF depth = 0 THEN inner
    ELSE Stmt("def", "helper", <<>>, FALSE, <<>>, <<Nested(inner, depth - 1)>>,
              FALSE, FALSE)

ImportStmts == {Nested(i, d) : i \in {ImportStmt, ImportFromStmt}, d \in 0..MaxDepth}

ActionDefs ==
    {AsyncActionDef(<<>>),
     AsyncActionDef(<<Positional("u", "CosmoUtils")>>),
     AsyncActionDef(<<Positional("u", "UtilA"), Positional("v", "UtilB")>>),
     SyncActionDef(<<Positional("u", "CosmoUtils")>>)}

TriggerDefs ==
    {TriggerDef(<<>>, TextAbstractCondition),
     TriggerDef(<<>>, TextDatetimeOrNone),
     TriggerDef(<<Positional("u", "UtilA")>>, TextAbstractCondition)}

NonFunctionStmts ==
    {Stmt("assign", "x", <<>>, FALSE, <<>>, <<>>, FALSE, FALSE),
     Stmt("assign", "f", <<>>, FALSE, <<>>, <<>>, FALSE, TRUE),
     Stmt("assign", "x", <<>>, FALSE, <<>>, <<>>, TRUE, FALSE),
     Stmt("class", "K", <<>>, FALSE, <<>>, <<>>, FALSE, FALSE),
     Stmt("expr", "", <<>>, FALSE, <<>>, <<>>, FALSE, FALSE),
     Stmt("expr", "", <<>>, FALSE, <<>>, <<>>, TRUE, FALSE)}

\* the parameters a generated function is given, the name left open: valid
\* ones of the base type and of two utility types, one typed datetime, a
\* keyword-only one, a **kwargs, one with a default, one without annotation
ParamShapes ==
    {Param("", "positional", FALSE, TRUE, "CosmoUtils"),
     Param("", "positional", FALSE, TRUE, "UtilA"),
     Param("", "positional", FALSE, TRUE, "UtilB"),
     Param("", "positional", FALSE, TRUE, "datetime"),
     Param("", "keyword_only", FALSE, TRUE, "UtilA"),
     Param("", "var_keyword", FALSE, TRUE, "UtilA"),
     Param("", "positional", TRUE, TRUE, "UtilA"),
     Param("", "positional", FALSE, FALSE, "")}

ParamNames == <<"a", "b", "c", "d">>

\* the shapes in order, the i-th parameter named ParamNames[i]
Named(shapes) == [i \in DOMAIN shapes |-> [shapes[i] EXCEPT !.name = ParamNames[i]]]

\* `async def action(...)` alone, for every list of up to MaxParams parameters
ParameterSources ==
    {Source(FALSE, <<AsyncActionDef(Named(shapes))>>) :
        shapes \in UNION {[1..k -> ParamShapes] : k \in 1..MaxParams}}

CoreStmts == ActionDefs \cup TriggerDefs \cup NonFunctionStmts \cup ImportStmts

SeqsUpTo(S, n) == UNION {[1..k -> S] : k \in 1..n}

\* a trigger source for each way of writing each return annotation
AnnotatedSources ==
    {Source(FALSE, <<TriggerDef(<<>>, t)>>) : t \in UNION {Writings(f) : f \in ReturnForms}}

Sources ==
    {Source(FALSE, b) : b \in SeqsUpTo(CoreStmts, MaxStmts)}
        \cup AnnotatedSources \cup ParameterSources \cup {Source(TRUE, <<>>)}

UtilityTypes == {"UtilA", "UtilB"}

(***************************************************************************)
(* The compile entry points, called once on a drawn source                 *)
(***************************************************************************)
Pending == [kind |-> "pending", err |-> "none", func |-> 0, trace |-> <<>>]

\* A call of an entry point: the source, the result, the namespace the call
\* built (empty when it did not come to build one), the names evaluating the
\* source added to it, and the names earlier calls added to theirs.
Call(op, code, result, namespace, defined, earlier) ==
    [op |-> op, code |-> code, result |-> result, namespace |-> namespace,
     defined |-> defined, earlier |-> earlier]

NoCall == Call("none", Source(TRUE, <<>>), Pending, <<>>, {}, {})

\* The last request: the handler, the id and filter it was given, the HTTP
\* status and error it answered, the stage an install stopped at, the view a
\* listing returned, the log of auto-install, the task ids held before the
\* request, the number of times the request called run_action_once and the
\* steps an install took.
Request(op, id, status_filter, status, err, stage, view, log, liveBefore, runs, steps) ==
    [op |-> op, id |-> id, filter |-> status_filter, status |-> status, err |-> err,
     stage |-> stage, view |-> view, log |-> log, liveBefore |-> liveBefore,
     runs |-> runs, steps |-> steps]

NoRequest == Request("none", 0, "none", 0, "none", "none", <<>>, <<>>, {}, 0, <<>>)

InitCompile ==
    /\ utils \in SUBSET UtilityTypes
    /\ call \in {Call("none", c, Pending, <<>>, {}, {}) : c \in Sources}
    /\ rules = <<>>
    /\ live = {}
    /\ suspended = {}
    /\ phase = "compile"
    /\ last = NoRequest
    /\ inflight = <<>>
    /\ compiled = [rule_id \in {} |-> 0]

Lifecycle == <<rules, live, suspended, phase, last, inflight, compiled>>

\* whether the call came as far as step
Reached(result, step) == \E i \in DOMAIN result.trace : result.trace[i] = step

\* the names exec added to the namespace it was given
Defined(namespace, ran) == DOMAIN ran.ns \ DOMAIN namespace

\* the state after entry point op returned result
Compiled(op, result) ==
    call' = Call(op, call.code, result,
                 IF Reached(result, "namespace") THEN _get_safe_namespace(utils)
                 ELSE <<>>,
                 IF Reached(result, "exec")
                 THEN Defined(_get_safe_namespace(utils),
                              Exec(call.code, _get_safe_namespace(utils)))
                 ELSE {},
                 call.earlier)

CallCompileAction ==
    /\ call.op = "none"
    /\ Compiled("compile_action_function", compile_action_function(call.code, utils))
    /\ UNCHANGED <<utils, Lifecycle>>

CallCompileTrigger ==
    /\ call.op = "none"
    /\ Compiled("compile_trigger_function", compile_trigger_function(call.code, utils))
    /\ UNCHANGED <<utils, Lifecycle>>

CallCompileTimeProvider ==
    /\ call.op = "none"
    /\ Compiled("compile_time_provider", compile_time_provider(call.code, utils))
    /\ UNCHANGED <<utils, Lifecycle>>

CallDetectRuleType ==
    /\ call.op = "none"
    /\ call' = [call EXCEPT !.op = "detect_rule_type",
                            !.result = detect_rule_type(call.code)]
    /\ UNCHANGED <<utils, Lifecycle>>

\* the answer of _validate_function_parameters for the function that
\* top-level statement stmt of the source defines
ParametersAnswer(outcome, stmt) ==
    [kind |-> IF outcome = "ok" THEN "accepted" ELSE "error",
     err |-> IF outcome = "ok" THEN "none" ELSE outcome,
     func |-> stmt, trace |-> <<"parameters">>]

\* ran is what evaluating the source did: function_name is bound to a
\* function the source defines, and the validator is applied to it
ValidateDefined(function_name, namespace_before, ran) ==
    /\ ~ran.raised
    /\ function_name \in DOMAIN ran.ns
    /\ ran.ns[function_name].obj \in {"function", "coroutine_function"}
    /\ ran.ns[function_name].stmt > 0
    /\ call.code.body[ran.ns[function_name].stmt].kind \in {"def", "asyncdef"}
    /\ call' = [call EXCEPT
                   !.op = "_validate_function_parameters",
                   !.result = ParametersAnswer(
                                  _validate_function_parameters(
                                      call.code, ran.ns[function_name],
                                      namespace_before, utils),
                                  ran.ns[function_name].stmt)]

\* _validate_function_parameters applied to a function the source defines
CallValidateParameters ==
    /\ call.op = "none"
    /\ AstParses(call.code)
    /\ \E function_name \in {"action", "trigger"} :
          ValidateDefined(function_name, _get_safe_namespace(utils),
                          Exec(call.code, _get_safe_namespace(utils)))
    /\ UNCHANGED <<utils, Lifecycle>>

(***************************************************************************)
(* Properties of the compile entry points                                  *)
(***************************************************************************)
CompileOps == {"compile_action_function", "compile_trigger_function", "compile_time_provider"}

\* an import statement, plain or from-form, somewhere in stmts, at any depth
RECURSIVE ContainsImport(_)
ContainsImport(stmts) ==
    \E i \in DOMAIN stmts :
        \/ stmts[i].kind \in {"import", "importfrom"}
        \/ ContainsImport(stmts[i].body)

\* the depth at which stmts holds an import statement nested deepest
RECURSIVE ImportDepth(_)
ImportDepth(stmts) ==
    IF ~ContainsImport(stmts) THEN 0
    ELSE CHOOSE d \in 1..(MaxDepth + 1) :
            /\ \E i \in DOMAIN stmts :
                  \/ d = 1 /\ stmts[i].kind \in {"import", "importfrom"}
                  \/ d > 1 /\ ImportDepth(stmts[i].body) = d - 1
            /\ \A i \in DOMAIN stmts : ImportDepth(stmts[i].body) < d

\* C1: a compile entry point called on a source that holds an import
\* statement, at the top level or nested, ends with the import-not-allowed
\* error, has not run exec and returns no routine.
C1_ImportRejectedBeforeExec ==
    (call.op \in CompileOps /\ ~call.code.garbled /\ ContainsImport(call.code.body))
        => /\ call.result.kind = "error"
           /\ call.result.err = "ImportNotAllowed"
           /\ \A i \in DOMAIN call.result.trace : call.result.trace[i] # "exec"

\* a call on a source whose only import is nested in a function in a function
C1_Witness ==
    /\ call.op \in CompileOps
    /\ ImportDepth(call.code.body) = 3
    /\ call.result.err = "ImportNotAllowed"

EntryName(op) == IF op = "compile_action_function" THEN "action" ELSE "trigger"

\* the check each entry point makes between the lookup and the parameters
ModeCheckPasses(op, code, func) ==
    LET return_type == _extract_return_type_annotation(code, "trigger")
    IN CASE op = "compile_action_function" -> func.obj = "coroutine_function"
         [] op = "compile_trigger_function" ->
                return_type.found /\ return_type.text = TextAbstractCondition
         [] op = "compile_time_provider" ->
                /\ return_type.found
                /\ return_type.text \in {TextDatetimeOrNone, TextDatetimeOrNoneTight,
                                         TextOptionalDatetime}

\* every stage passes for code: validation, evaluation, the only-functions
\* check, the lookup, the check of the mode and the parameters
StagesPassed(op, code, registry) ==
    LET before == _get_safe_namespace(registry)
        ran == Exec(code, before)
    IN /\ _validate_no_imports(code) = "ok"
       /\ ~ran.raised
       /\ _validate_only_functions(before, ran.ns) = "ok"
       /\ EntryName(op) \in DOMAIN ran.ns
       /\ Callable(ran.ns[EntryName(op)])
       /\ ModeCheckPasses(op, code, ran.ns[EntryName(op)])
       /\ _validate_function_parameters(code, ran.ns[EntryName(op)], before, registry) = "ok"

\* C2: a compile entry point returns a routine only for a source that passed
\* every stage; when a stage fails the call ends with an error and no routine.
C2_RoutineOnlyFromValidatedSource ==
    call.op \in CompileOps
        => /\ call.result.kind = "routine" => StagesPassed(call.op, call.code, utils)
           /\ ~StagesPassed(call.op, call.code, utils)
                 => /\ call.result.kind = "error"
                    /\ call.result.err # "none"
                    /\ call.result.func = 0

\* a call that passed validation and evaluation and failed at a later stage
C2_Witness ==
    /\ call.op \in CompileOps
    /\ _validate_no_imports(call.code) = "ok"
    /\ ~Exec(call.code, _get_safe_namespace(utils)).raised
    /\ ~StagesPassed(call.op, call.code, utils)
    /\ call.result.kind = "error"

\* an action source whose only statement is `async def action(...)` with
\* positional, annotated, default-free parameters of pairwise distinct
\* utility types, each registered (or the always-available CosmoUtils)
CleanActionSource(code, registry) ==
    /\ ~code.garbled
    /\ Len(code.body) = 1
    /\ code.body[1].kind = "asyncdef"
    /\ code.body[1].name = "action"
    /\ \A i \in DOMAIN code.body[1].params :
          LET p == code.body[1].params[i]
          IN /\ p.kind = "positional"
             /\ p.hasAnn
             /\ ~p.hasDefault
             /\ p.ann \in {"CosmoUtils"} \cup registry
             /\ \A j \in DOMAIN code.body[1].params :
                   j # i => code.body[1].params[j].ann # p.ann

\* C3: compile_action_function returns a routine for every such source.
C3_ValidActionCompiles ==
    (call.op = "compile_action_function" /\ CleanActionSource(call.code, utils))
        => call.result.kind = "routine"

\* a statement at the top level that is an assignment, a class or an expression
TopLevelNonFunction(code) ==
    \E i \in DOMAIN code.body : code.body[i].kind \in {"assign", "class", "expr"}

TriggerNodes(code) ==
    {i \in DOMAIN Walk(code.body) :
        Walk(code.body)[i].name = "trigger" /\ Walk(code.body)[i].kind \in {"def", "asyncdef"}}

\* code defines trigger once, with `def` and a return annotation
SoleTrigger(code) ==
    /\ AstParses(code)
    /\ Cardinality(TriggerNodes(code)) = 1
    /\ \A i \in TriggerNodes(code) :
          Walk(code.body)[i].kind = "def" /\ Walk(code.body)[i].hasReturns

\* the return annotation of that function, as written
TriggerAnnotation(code) ==
    Walk(code.body)[CHOOSE i \in TriggerNodes(code) : TRUE].returns

\* the accepted annotations of each kind, in every way of writing them
ConditionWritings == Writings(FormAbstractCondition)

TimerWritings == Writings(FormDatetimeOrNone) \cup Writings(FormOptionalDatetime)

\* C10: detect_rule_type answers trigger for the annotation AbstractCondition
\* and timer for datetime | None, datetime|None and Optional[datetime],
\* however the annotation is spaced.
C10_ClassificationOfAcceptedSpellings ==
    (call.op = "detect_rule_type" /\ SoleTrigger(call.code))
        => /\ TriggerAnnotation(call.code) \in ConditionWritings
                 => call.result.kind = "trigger"
           /\ TriggerAnnotation(call.code) \in TimerWritings
                 => call.result.kind = "timer"

\* Optional[datetime] written with spaces inside, classified as a timer
C10_Witness ==
    /\ call.op = "detect_rule_type"
    /\ SoleTrigger(call.code)
    /\ TriggerAnnotation(call.code) \in Writings(FormOptionalDatetime)
    /\ Len(TriggerAnnotation(call.code)) > Len(TextOptionalDatetime)
    /\ call.result.kind = "timer"

(***************************************************************************)
(* The scheduling engine, as the handlers use it                           *)
(***************************************************************************)
\* rule_manager.install_trigger_rule / install_timed_rule under task_id:
\* a task id already held is rejected.  [raised, live]
EngineInstall(task_id, tasks) ==
    IF task_id \in tasks THEN [raised |-> TRUE, live |-> tasks]
    ELSE [raised |-> FALSE, live |-> tasks \cup {task_id}]

\* rule_manager.uninstall_rule(task_id): whether a task was removed.  [success, live]
EngineUninstall(task_id, tasks) ==
    [success |-> task_id \in tasks, live |-> tasks \ {task_id}]

\* rule_manager.suspend_rule(task_id): the task, if held, no longer fires
EngineSuspend(task_id, tasks, held) ==
    IF task_id \in tasks THEN held \cup {task_id} ELSE held

\* rule_manager.resume_rule(task_id)
EngineResume(task_id, tasks, held) == held \ {task_id}

\* the elements of S, each once, in some order
Orders(S) ==
    {o \in [1..Cardinality(S) -> S] : \A i, j \in DOMAIN o : i # j => o[i] # o[j]}

\* rule_manager.run_action_once(routine): the routine is run one time, outside
\* the task set; it returns, or an exception of the routine leaves it.
\* [raised, runs]
EngineRunOnce(outcome) == [raised |-> outcome, runs |-> 1]

\* what a run of an action can do
RunOutcomes == {"none", "ValueError", "Exception"}

\* rule_manager.get_all_rules(): the task ids, each once, in some order
EngineOrders(tasks) == Orders(tasks)

(***************************************************************************)
(* Persisted rule records                                                  *)
(***************************************************************************)
RuleIds == 1..MaxRules

NoAction == [present |-> FALSE, action_code |-> Source(TRUE, <<>>)]

ActionRecord(action_code) == [present |-> TRUE, action_code |-> action_code]

RuleRecord(trigger, action, is_suspended) ==
    [trigger |-> trigger, action |-> action, is_suspended |-> is_suspended]

\* the action sources of the records: `async def action(u: CosmoUtils)` and
\* one that imports
CleanAction == ActionRecord(Source(FALSE, <<AsyncActionDef(<<Positional("u", "CosmoUtils")>>)>>))

ImportingAction == ActionRecord(Source(FALSE, <<ImportStmt, AsyncActionDef(<<>>)>>))

\* the trigger sources of the records: a condition trigger and a timer
ConditionTrigger == Source(FALSE, <<TriggerDef(<<>>, TextAbstractCondition)>>)

TimerTrigger == Source(FALSE, <<TriggerDef(<<>>, TextDatetimeOrNone)>>)

RuleRecords ==
    {RuleRecord(ConditionTrigger, CleanAction, FALSE),
     RuleRecord(ConditionTrigger, CleanAction, TRUE),
     RuleRecord(TimerTrigger, CleanAction, FALSE),
     RuleRecord(ConditionTrigger, ImportingAction, FALSE),
     RuleRecord(TimerTrigger, NoAction, TRUE)}

\* the sources the routines of a task are built from: the trigger source and
\* the action code of the record at the time of the install
SourcesOf(db_rule) == [trigger |-> db_rule.trigger, action |-> db_rule.action]

\* a task without record was built from sources that are not known
UnknownSources == [trigger |-> Source(TRUE, <<>>), action |-> NoAction]

\* the tasks the engine holds when the handlers start were built from the
\* records as they are
CompiledAtStart(tasks, db) ==
    [rule_id \in tasks |->
        IF rule_id \in DOMAIN db THEN SourcesOf(db[rule_id]) ELSE UnknownSources]

\* the rules table: a record for some of the rule ids
Databases == UNION {[ids -> RuleRecords] : ids \in SUBSET RuleIds}

(***************************************************************************)
(* routes/rpc.py and startup.py                                            *)
(***************************************************************************)
\* What an install path did: err is "none" or the exception raised (a compile
\* error, "EngineSubmissionFailed"), stage the step it stopped at, kind the
\* kind of rule submitted, steps the steps taken so far, in order, each with
\* the source it was taken on.  [err, stage, kind, steps, live, suspended]
Stopped(err, stage, steps, tasks, held) ==
    [err |-> err, stage |-> stage, kind |-> "none", steps |-> steps, live |-> tasks,
     suspended |-> held]

\* the steps of trace, taken on source
On(source, trace) == [i \in DOMAIN trace |-> <<source, trace[i]>>]

\* the task is in the engine; a rule whose record is suspended is suspended
Submitted(db_rule, rule_id, kind, steps, task, held) ==
    IF task.raised
    THEN Stopped("EngineSubmissionFailed", "engine", steps \o <<<<"engine", "install">>>>,
                 task.live, held)
    ELSE [err |-> "none", stage |-> "done", kind |-> kind,
          steps |-> steps \o <<<<"engine", "install">>>>
                      \o IF db_rule.is_suspended THEN <<<<"engine", "suspend">>>>
                         ELSE <<>>,
          live |-> task.live,
          suspended |-> IF db_rule.is_suspended
                        THEN EngineSuspend(rule_id, task.live, held) ELSE held]

\* the provider compiled, the rule is installed under another id than the
\* rule's
ProviderCompiledUnderOtherId(db_rule, rule_id, kind, steps, provider, tasks, held) ==
    IF provider.kind # "routine"
    THEN Stopped(provider.err, "compile_trigger", steps \o On("trigger", provider.trace),
                 tasks, held)
    ELSE Submitted(db_rule, rule_id, kind, steps \o On("trigger", provider.trace),
                   EngineInstall(rule_id + 1, tasks), held)

\* the provider compiled, the rule is installed under the rule's id
ProviderCompiled(db_rule, rule_id, kind, steps, provider, tasks, held) ==
    IF provider.kind # "routine"
    THEN Stopped(provider.err, "compile_trigger", steps \o On("trigger", provider.trace),
                 tasks, held)
    ELSE Submitted(db_rule, rule_id, kind, steps \o On("trigger", provider.trace),
                   EngineInstall(rule_id, tasks), held)

\* the trigger source classified, and compiled as a trigger also when the
\* classification raised
ClassifiedWithoutStopping(db_rule, rule_id, registry, steps, rule_type, tasks, held) ==
    IF rule_type.kind = "timer"
    THEN ProviderCompiled(db_rule, rule_id, "timer",
                          steps \o On("trigger", rule_type.trace),
                          compile_time_provider(db_rule.trigger, registry), tasks, held)
    ELSE ProviderCompiled(db_rule, rule_id, "trigger",
                          steps \o On("trigger", rule_type.trace),
                          compile_trigger_function(db_rule.trigger, registry),
                          tasks, held)

\* the rule is submitted as classified, the compile entry point is not called
ClassifiedSubmittedUnchecked(db_rule, rule_id, registry, steps, rule_type, tasks, held) ==
    IF rule_type.kind = "error"
    THEN Stopped(rule_type.err, "detect", steps \o On("trigger", rule_type.trace),
                 tasks, held)
    ELSE ProviderCompiled(db_rule, rule_id, rule_type.kind,
                          steps \o On("trigger", rule_type.trace),
                          Routine(1, <<>>), tasks, held)

\* the trigger source classified, the matching compile entry point is called
Classified(db_rule, rule_id, registry, steps, rule_type, tasks, held) ==
    IF rule_type.kind = "error"
    THEN Stopped(rule_type.err, "detect", steps \o On("trigger", rule_type.trace),
                 tasks, held)
    ELSE IF rule_type.kind = "trigger"
         THEN ProviderCompiled(db_rule, rule_id, "trigger",
                               steps \o On("trigger", rule_type.trace),
                               compile_trigger_function(db_rule.trigger, registry),
                               tasks, held)
    ELSE ProviderCompiled(db_rule, rule_id, "timer",
                          steps \o On("trigger", rule_type.trace),
                          compile_time_provider(db_rule.trigger, registry), tasks, held)

\* the rule is submitted before the action is looked at
ActionCompiledAfterSubmission(db_rule, rule_id, registry, action_routine, tasks, held) ==
    IF action_routine.kind # "routine"
    THEN Stopped(action_routine.err, "compile_action",
                 On("action", action_routine.trace), EngineInstall(rule_id, tasks).live,
                 held)
    ELSE Classified(db_rule, rule_id, registry, On("action", action_routine.trace),
                    detect_rule_type(db_rule.trigger), tasks, held)

\* the action compiled, the trigger source is classified
ActionCompiled(db_rule, rule_id, registry, action_routine, tasks, held) ==
    IF action_routine.kind # "routine"
    THEN Stopped(action_routine.err, "compile_action",
                 On("action", action_routine.trace), tasks, held)
    ELSE Classified(db_rule, rule_id, registry, On("action", action_routine.trace),
                    detect_rule_type(db_rule.trigger), tasks, held)

\* the steps both install paths share, from compiling the action on
InstallSteps(db_rule, rule_id, registry, tasks, held) ==
    ActionCompiled(db_rule, rule_id, registry,
                   compile_action_function(db_rule.action.action_code, registry),
                   tasks, held)

\* the answer of install_rule to what the try block did: every exception is
\* answered as a 500
InstallAnswer(done) ==
    [status |-> IF done.err = "none" THEN 200 ELSE 500, err |-> done.err,
     stage |-> done.stage, steps |-> done.steps, live |-> done.live,
     suspended |-> done.suspended]

\* install_rule: the HTTP status, the error and the engine's state after it
install_rule(rule_id, db, registry, tasks, held) ==
    IF rule_id \notin DOMAIN db
    THEN [status |-> 404, err |-> "RuleNotFound", stage |-> "none", steps |-> <<>>,
          live |-> tasks, suspended |-> held]
    ELSE IF ~db[rule_id].action.present
         THEN [status |-> 400, err |-> "NoAction", stage |-> "none", steps |-> <<>>,
               live |-> tasks, suspended |-> held]
    ELSE InstallAnswer(InstallSteps(db[rule_id], rule_id, registry, tasks, held))

\* _install_single_rule: the exception raised, or "none", and the engine's state
_install_single_rule(db_rule, rule_id, registry, tasks, held) ==
    IF ~db_rule.action.present THEN Stopped("NoAction", "none", <<>>, tasks, held)
    ELSE InstallSteps(db_rule, rule_id, registry, tasks, held)

\* one round of the loop is done: its outcome is logged, whatever it is
Logged(rule_id, one, rest) ==
    [rest EXCEPT !.log = <<[rule_id |-> rule_id, err |-> one.err,
                            steps |-> one.steps]>> \o rest.log]

\* the loop of auto_install_database_rules over the rules from position i on:
\* an exception of one rule is logged and the loop goes on.
\* [log, live, suspended]
RECURSIVE AutoInstallFrom(_, _, _, _, _, _), AutoInstallNext(_, _, _, _, _)
AutoInstallFrom(order, i, db, registry, tasks, held) ==
    IF i > Len(order) THEN [log |-> <<>>, live |-> tasks, suspended |-> held]
    ELSE AutoInstallNext(order, i, db, registry,
                         _install_single_rule(db[order[i]], order[i], registry, tasks,
                                              held))

AutoInstallNext(order, i, db, registry, one) ==
    Logged(order[i], one,
           AutoInstallFrom(order, i + 1, db, registry, one.live, one.suspended))

\* auto_install_database_rules: order is the order in which the query
\* returns the rules; no exception leaves it.  [raised, log, live, suspended]
auto_install_database_rules(order, db, registry, tasks, held) ==
    [raised |-> FALSE] @@ AutoInstallFrom(order, 1, db, registry, tasks, held)

\* the answer of uninstall_rule to what the engine returned: the 404 raised
\* inside the try block is caught by its `except Exception` and answered as
\* a 500
UninstallAnswer(rule_id, removal) ==
    IF removal.success
    THEN [status |-> 200, err |-> "none", success |-> TRUE, live |-> removal.live]
    ELSE [status |-> 500, err |-> "NotInstalled", success |-> FALSE,
          live |-> removal.live]

uninstall_rule(rule_id, tasks) == UninstallAnswer(rule_id, EngineUninstall(rule_id, tasks))

StatusFilters == {"none", "suspended", "running", "orphaned", "bogus"}

\* the view of a task that has a record: the record's trigger, suspension
\* flag and action (None when the record has no action)
InstalledRule(rule_id, db_rule) ==
    [view |-> "installed", rule_id |-> rule_id, trigger |-> db_rule.trigger,
     is_suspended |-> db_rule.is_suspended, action |-> db_rule.action]

\* the fields other than rule_id keep the defaults of the class
OrphanedRule(rule_id) ==
    [view |-> "orphaned", rule_id |-> rule_id, name |-> "Unknown (orphaned task)",
     description |-> "Rule not found in database", trigger |-> "None",
     action |-> NoAction]

\* the loop of list_installed_rules without its branch for the task ids that
\* have no record
RECURSIVE ListFromWithoutOrphans(_, _, _, _)
ListFromWithoutOrphans(installed_rule_ids, i, db, status_filter) ==
    IF i > Len(installed_rule_ids) THEN <<>>
    ELSE LET rule_id == installed_rule_ids[i]
             rest == ListFromWithoutOrphans(installed_rule_ids, i + 1, db, status_filter)
         IN IF rule_id \in DOMAIN db
            THEN IF \/ status_filter = "none"
                    \/ status_filter = "suspended" /\ db[rule_id].is_suspended
                    \/ status_filter = "running" /\ ~db[rule_id].is_suspended
                 THEN <<InstalledRule(rule_id, db[rule_id])>> \o rest
                 ELSE rest
            ELSE rest

\* the loop of list_installed_rules over installed_rule_ids from position i on
RECURSIVE ListFrom(_, _, _, _)
ListFrom(installed_rule_ids, i, db, status_filter) ==
    IF i > Len(installed_rule_ids) THEN <<>>
    ELSE LET rule_id == installed_rule_ids[i]
             rest == ListFrom(installed_rule_ids, i + 1, db, status_filter)
         IN IF rule_id \in DOMAIN db
            THEN IF \/ status_filter = "none"
                    \/ status_filter = "suspended" /\ db[rule_id].is_suspended
                    \/ status_filter = "running" /\ ~db[rule_id].is_suspended
                 THEN <<InstalledRule(rule_id, db[rule_id])>> \o rest
                 ELSE rest
            ELSE IF status_filter \in {"none", "orphaned"}
                 THEN <<OrphanedRule(rule_id)>> \o rest
                 ELSE rest

\* list_installed_rules: installed_rule_ids is what get_all_rules returned;
\* the 400 for an unknown filter is raised inside the try block and answered
\* as a 500.  [status, view]
list_installed_rules(status_filter, installed_rule_ids, db) ==
    IF status_filter \notin {"none", "suspended", "running", "orphaned"}
    THEN [status |-> 500, view |-> <<>>]
    ELSE IF installed_rule_ids = <<>> THEN [status |-> 200, view |-> <<>>]
    ELSE [status |-> 200, view |-> ListFrom(installed_rule_ids, 1, db, status_filter)]

\* what the engine's suspend_rule and resume_rule can do: return, or raise
EngineOutcomes == {"none", "Exception"}

\* the try block of suspend_rule and resume_rule: the flag is written and
\* committed, then the engine is called; when that call raises, the except
\* clause rolls back a session that has nothing left to roll back and
\* answers 500.  committed is the table after the commit, toggled the
\* engine's suspended tasks after the call.  [status, err, db, suspended]
Toggled(committed, toggled, held, outcome) ==
    IF outcome = "none"
    THEN [status |-> 200, err |-> "none", db |-> committed, suspended |-> toggled]
    ELSE [status |-> 500, err |-> "EngineFailed", db |-> committed, suspended |-> held]

\* suspend_rule writing the flag of every record instead of the addressed one
SuspendRuleWritingEveryRecord(rule_id, db, tasks, held, outcome) ==
    IF rule_id \notin DOMAIN db
    THEN [status |-> 404, err |-> "RuleNotFound", db |-> db, suspended |-> held]
    ELSE IF db[rule_id].is_suspended
         THEN [status |-> 400, err |-> "AlreadySuspended", db |-> db, suspended |-> held]
    ELSE Toggled([id \in DOMAIN db |-> [db[id] EXCEPT !.is_suspended = TRUE]],
                 EngineSuspend(rule_id, tasks, held), held, outcome)

\* suspend_rule without its check of the flag
SuspendRuleWithoutFlagCheck(rule_id, db, tasks, held, outcome) ==
    IF rule_id \notin DOMAIN db
    THEN [status |-> 404, err |-> "RuleNotFound", db |-> db, suspended |-> held]
    ELSE Toggled([db EXCEPT ![rule_id].is_suspended = TRUE],
                 EngineSuspend(rule_id, tasks, held), held, outcome)

\* suspend_rule.  [status, err, db, suspended]
suspend_rule(rule_id, db, tasks, held, outcome) ==
    IF rule_id \notin DOMAIN db
    THEN [status |-> 404, err |-> "RuleNotFound", db |-> db, suspended |-> held]
    ELSE IF db[rule_id].is_suspended
         THEN [status |-> 400, err |-> "AlreadySuspended", db |-> db, suspended |-> held]
    ELSE Toggled([db EXCEPT ![rule_id].is_suspended = TRUE],
                 EngineSuspend(rule_id, tasks, held), held, outcome)

\* resume_rule.  [status, err, db, suspended]
resume_rule(rule_id, db, tasks, held, outcome) ==
    IF rule_id \notin DOMAIN db
    THEN [status |-> 404, err |-> "RuleNotFound", db |-> db, suspended |-> held]
    ELSE IF ~db[rule_id].is_suspended
         THEN [status |-> 400, err |-> "NotSuspended", db |-> db, suspended |-> held]
    ELSE Toggled([db EXCEPT ![rule_id].is_suspended = FALSE],
                 EngineResume(rule_id, tasks, held), held, outcome)

\* the actions table: the action a rule refers to has the rule's number as
\* its id, and no other action exists
ActionOf(db, action_id) == IF action_id \in DOMAIN db THEN db[action_id].action ELSE NoAction

\* the answer of invoke_action once the action is compiled: a ValueError, of
\* the compilation or of the run, is answered as a 400, another exception
\* of the run as a 500.  [status, err, runs]
InvokeAnswer(action_routine, run) ==
    IF action_routine.kind # "routine"
    THEN [status |-> 400, err |-> action_routine.err, runs |-> 0]
    ELSE IF run.raised = "none" THEN [status |-> 200, err |-> "none", runs |-> run.runs]
    ELSE [status |-> IF run.raised = "ValueError" THEN 400 ELSE 500,
          err |-> "RunFailed", runs |-> run.runs]

\* invoke_action: outcome is what run_action_once does if it is called
invoke_action(action_id, db, registry, outcome) ==
    IF ~ActionOf(db, action_id).present
    THEN [status |-> 404, err |-> "ActionNotFound", runs |-> 0]
    ELSE InvokeAnswer(compile_action_function(ActionOf(db, action_id).action_code,
                                              registry),
                      EngineRunOnce(outcome))

\* the sources of the tasks after a handler left the engine with tasks: a
\* task that stayed keeps its routines, a task that was added was built from
\* its record
CompiledBy(tasks) ==
    [rule_id \in tasks |->
        IF rule_id \in DOMAIN compiled THEN compiled[rule_id]
        ELSE CompiledAtStart(tasks, rules)[rule_id]]

(***************************************************************************)
(* The server: lifespan runs auto-install, loads the plugins of the        *)
(* database, then requests are handled                                     *)
(***************************************************************************)
\* the state after auto_install_database_rules returned r
AutoInstalled(r) ==
    /\ live' = r.live
    /\ compiled' = CompiledBy(r.live)
    /\ suspended' = r.suspended
    /\ last' = Request("auto_install", 0, "none", IF r.raised THEN 500 ELSE 200,
                       "none", "none", <<>>, r.log, live, 0, <<>>)

AutoInstall ==
    /\ phase = "startup"
    /\ \E order \in Orders(DOMAIN rules) :
          AutoInstalled(auto_install_database_rules(order, rules, utils, live, suspended))
    /\ phase' = "plugins"
    /\ UNCHANGED <<inflight, utils, call, rules>>

\* load_all_plugins_from_database, after auto-install: the plugins of the
\* plugins table that load are registered, a plugin that fails to load is
\* logged and skipped
LoadPlugins ==
    /\ phase = "plugins"
    /\ \E loaded \in SUBSET UtilityTypes : utils' = utils \cup loaded
    /\ phase' = "serving"
    /\ UNCHANGED <<inflight, call, rules, live, suspended, last, compiled>>

\* the state after install_rule answered r
InstallAnswered(rule_id, r) ==
    /\ live' = r.live
    /\ compiled' = CompiledBy(r.live)
    /\ suspended' = r.suspended
    /\ last' = Request("install", rule_id, "none", r.status, r.err, r.stage,
                       <<>>, <<>>, live, 0, r.steps)

Install(rule_id) ==
    /\ phase = "serving"
    /\ InstallAnswered(rule_id, install_rule(rule_id, rules, utils, live, suspended))
    /\ UNCHANGED <<inflight, utils, call, rules, phase>>

\* the state after uninstall_rule answered r
UninstallAnswered(rule_id, r) ==
    /\ live' = r.live
    /\ compiled' = CompiledBy(r.live)
    /\ suspended' = suspended \cap r.live
    /\ last' = Request("uninstall", rule_id, "none", r.status, r.err, "none",
                       <<>>, <<>>, live, 0, <<>>)

Uninstall(rule_id) ==
    /\ phase = "serving"
    /\ UninstallAnswered(rule_id, uninstall_rule(rule_id, live))
    /\ UNCHANGED <<inflight, utils, call, rules, phase>>

\* list_installed_rules answered r and the tasks without record were removed
\* from the engine
ListAnsweredRepairingOrphans(status_filter, r) ==
    /\ last' = Request("list", 0, status_filter, r.status, "none", "none",
                       r.view, <<>>, live, 0, <<>>)
    /\ live' = live \cap DOMAIN rules
    /\ compiled' = CompiledBy(live \cap DOMAIN rules)
    /\ suspended' = suspended \cap DOMAIN rules
    /\ UNCHANGED rules

\* the state after list_installed_rules answered r
ListAnswered(status_filter, r) ==
    /\ last' = Request("list", 0, status_filter, r.status, "none", "none",
                       r.view, <<>>, live, 0, <<>>)
    /\ UNCHANGED <<rules, live, suspended, compiled>>

ListInstalled(status_filter) ==
    /\ phase = "serving"
    /\ \E installed_rule_ids \in EngineOrders(live) :
          ListAnswered(status_filter,
                       list_installed_rules(status_filter, installed_rule_ids, rules))
    /\ UNCHANGED <<inflight, utils, call, phase>>

\* the state after suspend_rule answered r
SuspendAnswered(rule_id, r) ==
    /\ rules' = r.db
    /\ suspended' = r.suspended
    /\ last' = Request("suspend", rule_id, "none", r.status, r.err, "none",
                       <<>>, <<>>, live, 0, <<>>)

Suspend(rule_id) ==
    /\ phase = "serving"
    /\ \E outcome \in EngineOutcomes :
          SuspendAnswered(rule_id, suspend_rule(rule_id, rules, live, suspended, outcome))
    /\ UNCHANGED <<inflight, utils, call, live, phase, compiled>>

\* the state after resume_rule answered r
ResumeAnswered(rule_id, r) ==
    /\ rules' = r.db
    /\ suspended' = r.suspended
    /\ last' = Request("resume", rule_id, "none", r.status, r.err, "none",
                       <<>>, <<>>, live, 0, <<>>)

Resume(rule_id) ==
    /\ phase = "serving"
    /\ \E outcome \in EngineOutcomes :
          ResumeAnswered(rule_id, resume_rule(rule_id, rules, live, suspended, outcome))
    /\ UNCHANGED <<inflight, utils, call, live, phase, compiled>>

\* the state after invoke_action answered r
InvokeAnswered(action_id, r) ==
    /\ last' = Request("invoke", action_id, "none", r.status, r.err, "none",
                       <<>>, <<>>, live, r.runs, <<>>)
    /\ UNCHANGED <<rules, live, suspended, compiled>>

Invoke(action_id) ==
    /\ phase = "serving"
    /\ \E outcome \in RunOutcomes :
          InvokeAnswered(action_id, invoke_action(action_id, rules, utils, outcome))
    /\ UNCHANGED <<inflight, utils, call, phase>>

Serve ==
    \/ \E rule_id \in RuleIds : Install(rule_id)
    \/ \E rule_id \in RuleIds : Uninstall(rule_id)
    \/ \E status_filter \in StatusFilters : ListInstalled(status_filter)
    \/ \E rule_id \in RuleIds : Suspend(rule_id)
    \/ \E rule_id \in RuleIds : Resume(rule_id)
    \/ \E action_id \in RuleIds : Invoke(action_id)

\* the process when auto-install starts: the server's own plugin is
\* registered, no task is held
Init ==
    /\ utils = {ServerCosmoUtils}
    /\ call = NoCall
    /\ rules \in Databases
    /\ live = {}
    /\ suspended = {}
    /\ phase = "startup"
    /\ last = NoRequest
    /\ inflight = <<>>
    /\ compiled = CompiledAtStart(live, rules)

Next == AutoInstall \/ LoadPlugins \/ Serve

Spec == Init /\ [][Next]_vars

\* the rules table the handlers are called against: records that differ in
\* the persisted flag and in having an action
ServedDatabases ==
    UNION {[ids -> {RuleRecord(ConditionTrigger, CleanAction, FALSE),
                    RuleRecord(ConditionTrigger, CleanAction, TRUE),
                    RuleRecord(TimerTrigger, NoAction, TRUE)}] : ids \in SUBSET RuleIds}

\* the handlers against any task set the engine may hold
InitAnyEngine ==
    /\ utils = {ServerCosmoUtils}
    /\ call = NoCall
    /\ rules \in ServedDatabases
    /\ live \in SUBSET RuleIds
    /\ suspended \in SUBSET live
    /\ phase = "serving"
    /\ last = NoRequest
    /\ inflight = <<>>
    /\ compiled = CompiledAtStart(live, rules)

SpecAnyEngine == InitAnyEngine /\ [][Serve]_vars

(***************************************************************************)
(* The CRUD routes that update a rule or an action                         *)
(***************************************************************************)
\* RuleUpdate, its trigger and action_id: the action is written as the
\* record action_id refers to, NoAction for an id without record
RuleUpdates == {SourcesOf(db_rule) : db_rule \in RuleRecords}

\* ActionUpdate, its action_code
ActionUpdates == {CleanAction.action_code, ImportingAction.action_code}

\* update_rule: 404 without record, 400 when action_id is changed to an id
\* without record, else the fields are written and committed.  [status, db]
update_rule(rule_id, rule, db) ==
    IF rule_id \notin DOMAIN db THEN [status |-> 404, db |-> db]
    ELSE IF rule.action # db[rule_id].action /\ ~rule.action.present
         THEN [status |-> 400, db |-> db]
    ELSE [status |-> 200,
          db |-> [db EXCEPT ![rule_id].trigger = rule.trigger,
                            ![rule_id].action = rule.action]]

\* update_action on the action of rule rule_id: 404 without record, else the
\* fields are written and committed.  [status, db]
update_action(rule_id, action_code, db) ==
    IF rule_id \notin DOMAIN db \/ ~db[rule_id].action.present
    THEN [status |-> 404, db |-> db]
    ELSE [status |-> 200, db |-> [db EXCEPT ![rule_id].action.action_code = action_code]]

\* the state after an update route answered r: the engine is not called
Updated(op, rule_id, r) ==
    /\ rules' = r.db
    /\ last' = Request(op, rule_id, "none", r.status, "none", "none", <<>>, <<>>, live,
                       0, <<>>)
    /\ UNCHANGED <<inflight, utils, call, live, suspended, phase, compiled>>

UpdateRule(rule_id, rule) ==
    /\ phase = "serving"
    /\ Updated("update_rule", rule_id, update_rule(rule_id, rule, rules))

UpdateAction(rule_id, action_code) ==
    /\ phase = "serving"
    /\ Updated("update_action", rule_id, update_action(rule_id, action_code, rules))

NextCrud ==
    \/ \E rule_id \in RuleIds : Install(rule_id)
    \/ \E rule_id \in RuleIds : Uninstall(rule_id)
    \/ \E status_filter \in StatusFilters : ListInstalled(status_filter)
    \/ \E rule_id \in RuleIds : \E rule \in RuleUpdates : UpdateRule(rule_id, rule)
    \/ \E rule_id \in RuleIds : \E action_code \in ActionUpdates :
          UpdateAction(rule_id, action_code)

SpecCrud == InitAnyEngine /\ [][NextCrud]_vars

(***************************************************************************)
(* The install steps on a drawn trigger source                             *)
(***************************************************************************)
\* what the steps did, as the result of a call.  [kind, err, func, trace]
StepsAnswer(done) ==
    [kind |-> IF done.err = "none" THEN done.kind ELSE "error", err |-> done.err,
     func |-> 0, trace |-> done.steps]

\* install_rule from the classification on, for a rule that has the drawn
\* source as its trigger and whose action has compiled
CallInstallFromClassification ==
    /\ call.op = "none"
    /\ call' = [call EXCEPT
                   !.op = "install_from_classification",
                   !.result = StepsAnswer(
                                  Classified(RuleRecord(call.code, CleanAction, FALSE),
                                             1, utils, <<>>,
                                             detect_rule_type(call.code), {}, {}))]
    /\ UNCHANGED <<utils, Lifecycle>>

\* the install steps alone, on every drawn source
SpecInstallSteps == InitCompile /\ [][CallInstallFromClassification]_vars

NextCompile ==
    \/ CallValidateParameters
    \/ CallCompileAction
    \/ CallCompileTrigger
    \/ CallCompileTimeProvider
    \/ CallDetectRuleType

SpecCompile == InitCompile /\ [][NextCompile]_vars

(***************************************************************************)
(* Compile calls while plugins are registered                              *)
(***************************************************************************)
\* the sources compiled: the sources of the rule records, an action over a
\* plugin utility, an action after a statement that is not a function, and
\* text that does not parse
NamespaceSources ==
    {CleanAction.action_code, ImportingAction.action_code, ConditionTrigger,
     TimerTrigger, Source(TRUE, <<>>),
     Source(FALSE, <<AsyncActionDef(<<Positional("a", "UtilA")>>)>>)}
        \cup {Source(FALSE, <<st, AsyncActionDef(<<>>)>>) : st \in NonFunctionStmts}

\* the types a plugin can register: the server's own utility class and those
\* of the plugins loaded from the database
PluginTypes == UtilityTypes \cup {ServerCosmoUtils}

InitNamespace ==
    /\ utils \in SUBSET PluginTypes
    /\ call \in {Call("none", c, Pending, <<>>, {}, {}) : c \in NamespaceSources}
    /\ rules = <<>>
    /\ live = {}
    /\ suspended = {}
    /\ phase = "compile"
    /\ last = NoRequest
    /\ inflight = <<>>
    /\ compiled = CompiledAtStart(live, rules)

\* register_plugin: the plugin's utility type joins the registry; the call
\* before it, if any, has returned
Register(util_type) ==
    /\ util_type \notin utils
    /\ utils' = utils \cup {util_type}
    /\ call' = Call("none", call.code, Pending, <<>>, {}, call.earlier \cup call.defined)
    /\ UNCHANGED Lifecycle

NextNamespace ==
    \/ CallCompileAction
    \/ CallCompileTrigger
    \/ CallCompileTimeProvider
    \/ \E util_type \in PluginTypes : Register(util_type)

SpecNamespace == InitNamespace /\ [][NextNamespace]_vars

(***************************************************************************)
(* suspend_rule and resume_rule, statement by statement                    *)
(***************************************************************************)
\* A request in flight: pc is the statement it is at ("query", "commit",
\* "engine", "done"), status the answer once it is done, overlapped whether
\* another request was in flight while this one was.
InFlight(op, rule_id, pc, status, overlapped) ==
    [op |-> op, id |-> rule_id, pc |-> pc, status |-> status, overlapped |-> overlapped]

\* the handlers run in the thread pool: a request starts while others are
\* at any statement
Receive(op, rule_id) ==
    /\ Len(inflight) < MaxRequests
    /\ inflight' =
          [i \in DOMAIN inflight |->
              [inflight[i] EXCEPT !.overlapped = @ \/ inflight[i].pc # "done"]]
            \o <<InFlight(op, rule_id, "query", 0,
                          \E i \in DOMAIN inflight : inflight[i].pc # "done")>>
    /\ UNCHANGED <<utils, call, rules, live, suspended, phase, last, compiled>>

\* the query and the two checks before the try block
Query(i) ==
    /\ inflight[i].pc = "query"
    /\ inflight' =
          [inflight EXCEPT
              ![i] = IF inflight[i].id \notin DOMAIN rules
                     THEN [@ EXCEPT !.pc = "done", !.status = 404]
                     ELSE IF rules[inflight[i].id].is_suspended = (inflight[i].op = "suspend")
                          THEN [@ EXCEPT !.pc = "done", !.status = 400]
                     ELSE [@ EXCEPT !.pc = "commit"]]
    /\ UNCHANGED <<utils, call, rules, live, suspended, phase, last, compiled>>

\* db_rule.is_suspended = ...; db.commit(); db.refresh(db_rule)
Commit(i) ==
    /\ inflight[i].pc = "commit"
    /\ rules' = [rules EXCEPT ![inflight[i].id].is_suspended = (inflight[i].op = "suspend")]
    /\ inflight' = [inflight EXCEPT ![i].pc = "engine"]
    /\ UNCHANGED <<utils, call, live, suspended, phase, last, compiled>>

\* rule_manager.suspend_rule / resume_rule, then the return or the except
\* clause; for an install the suspend call that follows the submission
CallEngine(i, outcome) ==
    /\ inflight[i].pc = "engine"
    /\ suspended' =
          IF outcome # "none" THEN suspended
          ELSE IF inflight[i].op \in {"suspend", "install"}
               THEN EngineSuspend(inflight[i].id, live, suspended)
          ELSE EngineResume(inflight[i].id, live, suspended)
    /\ inflight' = [inflight EXCEPT ![i].pc = "done",
                                    ![i].status = IF outcome = "none" THEN 200 ELSE 500]
    /\ UNCHANGED <<utils, call, rules, live, phase, last, compiled>>

\* install_rule from the submission on, for a rule whose sources have
\* compiled: install_trigger_rule / install_timed_rule under the rule id;
\* the handler goes on to the suspend call when the record it read is
\* suspended
InstallSubmit(rule_id) ==
    /\ Len(inflight) < MaxRequests
    /\ rule_id \in DOMAIN rules
    /\ rules[rule_id].action.present
    /\ live' = EngineInstall(rule_id, live).live
    /\ compiled' = CompiledBy(EngineInstall(rule_id, live).live)
    /\ inflight' =
          [i \in DOMAIN inflight |->
              [inflight[i] EXCEPT !.overlapped = @ \/ inflight[i].pc # "done"]]
            \o <<InFlight("install", rule_id,
                          IF EngineInstall(rule_id, live).raised THEN "done"
                          ELSE IF rules[rule_id].is_suspended THEN "engine"
                          ELSE "done",
                          IF EngineInstall(rule_id, live).raised THEN 500
                          ELSE IF rules[rule_id].is_suspended THEN 0
                          ELSE 200,
                          \E i \in DOMAIN inflight : inflight[i].pc # "done")>>
    /\ UNCHANGED <<utils, call, rules, suspended, phase, last>>

\* the engine holds tasks of persisted rules and of others, and agrees with
\* the records on which are suspended
InitConcurrent ==
    /\ utils = {ServerCosmoUtils}
    /\ call = NoCall
    /\ rules \in Databases
    /\ live \in SUBSET RuleIds
    /\ suspended = {rule_id \in live \cap DOMAIN rules : rules[rule_id].is_suspended}
    /\ phase = "serving"
    /\ last = NoRequest
    /\ inflight = <<>>
    /\ compiled = CompiledAtStart(live, rules)

NextConcurrent ==
    \/ \E op \in {"suspend", "resume"} : \E rule_id \in RuleIds : Receive(op, rule_id)
    \/ \E rule_id \in RuleIds : InstallSubmit(rule_id)
    \/ \E i \in DOMAIN inflight : Query(i)
    \/ \E i \in DOMAIN inflight : Commit(i)
    \/ \E i \in DOMAIN inflight : \E outcome \in EngineOutcomes : CallEngine(i, outcome)

SpecConcurrent == InitConcurrent /\ [][NextConcurrent]_vars

(***************************************************************************)
(* Properties of the handlers                                              *)
(***************************************************************************)
\* a persisted rule that is well formed: it has an action whose source is a
\* sole `async def action(...)` over registered utility types, and a trigger
\* source that is a sole parameterless `def trigger()` annotated with
\* AbstractCondition or `datetime | None`
ValidRule(db_rule, registry) ==
    /\ db_rule.action.present
    /\ CleanActionSource(db_rule.action.action_code, registry)
    /\ SoleTrigger(db_rule.trigger)
    /\ db_rule.trigger.body[1].params = <<>>
    /\ TriggerAnnotation(db_rule.trigger) \in {TextAbstractCondition, TextDatetimeOrNone}

C5_UninstallOfAbsentIdIsNotAnError ==
    (last.op = "uninstall" /\ last.id \notin last.liveBefore)
        => /\ live = last.liveBefore
           /\ last.status < 400

\* C6: the unfiltered listing has exactly one entry for each task id the
\* engine holds and none for another id; the entry of an id that has a
\* record is the installed view with the record's trigger, suspension flag
\* and action, the entry of an id without a record is the orphaned view,
\* which carries the id and the defaults of its class.
C6_ListReconcilesEngineWithRecords ==
    (last.op = "list" /\ last.filter = "none")
        => /\ last.status = 200
           /\ Len(last.view) = Cardinality(live)
           /\ {last.view[i].rule_id : i \in DOMAIN last.view} = live
           /\ \A i \in DOMAIN last.view :
                 IF last.view[i].rule_id \in DOMAIN rules
                 THEN last.view[i] =
                          [view |-> "installed", rule_id |-> last.view[i].rule_id,
                           trigger |-> rules[last.view[i].rule_id].trigger,
                           is_suspended |-> rules[last.view[i].rule_id].is_suspended,
                           action |-> rules[last.view[i].rule_id].action]
                 ELSE last.view[i] =
                          [view |-> "orphaned", rule_id |-> last.view[i].rule_id,
                           name |-> "Unknown (orphaned task)",
                           description |-> "Rule not found in database",
                           trigger |-> "None", action |-> NoAction]

\* an unfiltered listing while the engine holds a task with a record and a
\* task without one
C6_Witness ==
    /\ last.op = "list"
    /\ last.filter = "none"
    /\ \E a \in live : a \in DOMAIN rules
    /\ \E b \in live : b \notin DOMAIN rules
    /\ Len(last.view) = 2

\* C7: auto-install never raises, attempts every persisted rule once
\* whatever happened to the others, and installs every rule that is valid.
C7_AutoInstallInstallsEveryValidRule ==
    last.op = "auto_install"
        => /\ last.status = 200
           /\ Len(last.log) = Cardinality(DOMAIN rules)
           /\ {last.log[i].rule_id : i \in DOMAIN last.log} = DOMAIN rules
           /\ \A rule_id \in DOMAIN rules :
                 ValidRule(rules[rule_id], utils) => rule_id \in live

\* C8: install answers a failure to compile the action or trigger source in
\* the client-error class and a failure of the submission to the engine in
\* the server-error class.
C8_CompileFailureIsClientError ==
    last.op = "install"
        => /\ last.stage \in {"compile_action", "detect", "compile_trigger"}
                 => last.status \in 400..499
           /\ last.stage = "engine" => last.status \in 500..599

(***************************************************************************)
(* Properties of classification and of parameter validation                *)
(***************************************************************************)
\* the return annotation of `trigger`, spaces removed, is one of texts
AnnotationIsExactly(code, texts) ==
    /\ _extract_return_type_annotation(code, "trigger").found
    /\ RemoveSpaces(_extract_return_type_annotation(code, "trigger").text) \in texts

\* C11: detect_rule_type answers trigger only for the annotation
\* AbstractCondition, timer only for a spelling of datetime | None or
\* Optional[datetime], and fails with the unrecognized-return-type error for a
\* missing annotation and for every other annotation.
C11_ClassificationIsExact ==
    call.op = "detect_rule_type"
        => IF AnnotationIsExactly(call.code, {TextAbstractCondition})
           THEN call.result.kind = "trigger"
           ELSE IF AnnotationIsExactly(call.code, {TextDatetimeOrNoneTight,
                                                   TextOptionalDatetime})
                THEN call.result.kind = "timer"
           ELSE /\ call.result.kind = "error"
                /\ call.result.err = "UnrecognizedReturnType"

\* code is `async def action(...)` and nothing else
SoleAction(code) ==
    /\ ~code.garbled
    /\ Len(code.body) = 1
    /\ code.body[1].kind = "asyncdef"
    /\ code.body[1].name = "action"

\* a positional, annotated, default-free parameter
WellFormedParameter(p) == p.kind = "positional" /\ p.hasAnn /\ ~p.hasDefault

\* ... whose type is the base utility type or a registered one
ValidParameter(p, registry) == WellFormedParameter(p) /\ p.ann \in {"CosmoUtils"} \cup registry

\* the one thing wrong with a parameter that has exactly one of the three
\* defects, "none" for any other parameter
OffenceKind(p) ==
    CASE p.kind \in {"keyword_only", "var_keyword"} /\ ~p.hasDefault /\ p.hasAnn
            -> "KeywordParameterNotAllowed"
      [] p.kind = "positional" /\ p.hasDefault /\ p.hasAnn -> "DefaultNotAllowed"
      [] p.kind = "positional" /\ ~p.hasDefault /\ ~p.hasAnn -> "MissingTypeHint"
      [] OTHER -> "none"

\* parameter i of params has one defect, its annotation (if any) names an
\* available type, and the other parameters are valid with distinct types
OnlyOffender(params, i, registry) ==
    /\ OffenceKind(params[i]) # "none"
    /\ params[i].hasAnn => params[i].ann \in {"CosmoUtils"} \cup registry
    /\ \A j \in DOMAIN params \ {i} :
          /\ ValidParameter(params[j], registry)
          /\ \A k \in DOMAIN params \ {i, j} : params[k].ann # params[j].ann

\* the call op on a sole action with one offending parameter ends with the
\* error of that parameter's defect, wherever the parameter stands
OffendingParameterAnswered(op) ==
    (call.op = op /\ SoleAction(call.code))
        => \A i \in DOMAIN call.code.body[1].params :
              OnlyOffender(call.code.body[1].params, i, utils)
                 => /\ call.result.kind = "error"
                    /\ call.result.err = OffenceKind(call.code.body[1].params[i])

\* C12: compiling a function with a keyword-only or **kwargs parameter, a
\* parameter with a default or a parameter without annotation fails with the
\* error kind of that defect, whatever the position of the parameter, and
\* returns no routine.
C12_OffendingParameterHasItsOwnError == OffendingParameterAnswered("compile_action_function")

\* the same of _validate_function_parameters applied to the function itself
ValidatorRejectsOffendingParameter ==
    OffendingParameterAnswered("_validate_function_parameters")

\* the call op on a sole action whose parameters are all valid and two of
\* which declare the same type ends with the duplicate-utility-type error
DuplicateTypeAnswered(op) ==
    (/\ call.op = op
     /\ SoleAction(call.code)
     /\ \A i \in DOMAIN call.code.body[1].params :
           ValidParameter(call.code.body[1].params[i], utils)
     /\ \E i, j \in DOMAIN call.code.body[1].params :
           i # j /\ call.code.body[1].params[i].ann = call.code.body[1].params[j].ann)
        => /\ call.result.kind = "error"
           /\ call.result.err = "DuplicateUtilityType"

\* C13: compiling a function whose parameters are otherwise valid and that
\* declares one utility type for two parameters (the base utility type
\* included) fails with the duplicate-utility-type error, whichever the two
\* positions.
C13_DuplicateTypeFailsCompilation == DuplicateTypeAnswered("compile_action_function")

\* the same of _validate_function_parameters applied to the function itself
ValidatorRejectsDuplicateType == DuplicateTypeAnswered("_validate_function_parameters")

\* the call op on a sole action with well-formed parameters of pairwise
\* distinct types is accepted when every type is the base utility type or
\* registered, and ends with the unregistered-utility error otherwise
RegistryAnswered(op) ==
    (/\ call.op = op
     /\ SoleAction(call.code)
     /\ \A i \in DOMAIN call.code.body[1].params :
           /\ WellFormedParameter(call.code.body[1].params[i])
           /\ \A j \in DOMAIN call.code.body[1].params :
                 j # i => call.code.body[1].params[j].ann
                             # call.code.body[1].params[i].ann)
        => IF \A i \in DOMAIN call.code.body[1].params :
                 call.code.body[1].params[i].ann \in {"CosmoUtils"} \cup utils
           THEN call.result.kind \in {"routine", "accepted"}
           ELSE call.result.kind = "error" /\ call.result.err = "UnregisteredUtility"

\* C14: a declared parameter type is accepted if and only if it is the base
\* utility type or registered when the function is validated; compiling a
\* function that declares another type fails with the unregistered-utility
\* error.
C14_DeclaredTypeAcceptedIffRegistered == RegistryAnswered("compile_action_function")

\* the same of _validate_function_parameters applied to the function itself
ValidatorAcceptsRegisteredTypes == RegistryAnswered("_validate_function_parameters")

(***************************************************************************)
(* Properties of the engine's task set and of the rule records             *)
(***************************************************************************)
\* the engine's state after the submission step both install paths share,
\* were the provider of the persisted rule rule_id to compile
SubmissionOf(rule_id, kind) ==
    ProviderCompiled(rules[rule_id], rule_id, kind, <<>>, Routine(1, <<>>), live,
                     suspended)

\* C15: from startup on, through auto-install and any install, uninstall,
\* suspend, resume and list request, every live task id is the id of a
\* persisted rule record; an install request for an id without record is
\* answered 404 and submits nothing; and the submission step of the install
\* paths adds no other id than that of the record it was given.
C15_NoOrphanFromInstallPaths ==
    /\ live \subseteq DOMAIN rules
    /\ (last.op = "install" /\ last.id \notin DOMAIN rules)
          => last.status = 404 /\ live = last.liveBefore
    /\ \A rule_id \in DOMAIN rules : \A kind \in {"trigger", "timer"} :
          /\ SubmissionOf(rule_id, kind).live \subseteq live \cup {rule_id}
          /\ SubmissionOf(rule_id, kind).live \subseteq DOMAIN rules

\* an install request for an id without record was handled while other
\* records exist
C15_Witness ==
    /\ last.op = "install"
    /\ last.id \notin DOMAIN rules
    /\ DOMAIN rules # {}
    /\ \E rule_id \in DOMAIN rules : SubmissionOf(rule_id, "timer").live = {rule_id}

\* what a step may do to the record rule_id: nothing, or, when the step is
\* a suspend or resume of rule_id that passed the checks of the record (it
\* is answered 200, or 500 when the engine raised after the commit), set or
\* clear its suspension flag
FlagWrittenOnlyByItsRequest(rule_id) ==
    /\ rules'[rule_id].trigger = rules[rule_id].trigger
    /\ rules'[rule_id].action = rules[rule_id].action
    /\ rules'[rule_id].is_suspended # rules[rule_id].is_suspended
          => /\ last'.id = rule_id
             /\ last'.status \in {200, 500}
             /\ \/ last'.op = "suspend" /\ rules'[rule_id].is_suspended
                \/ last'.op = "resume" /\ ~rules'[rule_id].is_suspended

C17_ListOnlyObserves ==
    [][last'.op = "list"
          => /\ live' = live
             /\ suspended' = suspended
             /\ rules' = rules
             /\ live' \ DOMAIN rules' = live \ DOMAIN rules]_vars

\* a list request with the orphaned filter was handled and showed a
\* suspended task without record, which is still live
C17_Witness ==
    /\ last.op = "list"
    /\ last.filter = "orphaned"
    /\ last.liveBefore = live
    /\ \E rule_id \in live \ DOMAIN rules :
          /\ rule_id \in suspended
          /\ \E i \in DOMAIN last.view : last.view[i] = OrphanedRule(rule_id)

\* a step that is a suspend (resume) request for a rule whose persisted flag
\* is already (is not) suspended
RejectedAsDuplicate(op, flag) ==
    /\ last'.op = op
    /\ last'.id \in DOMAIN rules
    /\ rules[last'.id].is_suspended = flag

\* C18: a suspend or resume request never adds a task id to or removes one
\* from the engine's live set; a suspend of a rule whose persisted flag is
\* already suspended, and a resume of a rule whose flag is not suspended, is
\* answered 400 and changes neither a record nor the engine's state.
C18_SuspendResumeKeepTasksAndRejectDuplicates ==
    [][/\ last'.op \in {"suspend", "resume"} => live' = live
       /\ (RejectedAsDuplicate("suspend", TRUE) \/ RejectedAsDuplicate("resume", FALSE))
             => /\ last'.status = 400
                /\ rules' = rules
                /\ suspended' = suspended
                /\ live' = live]_vars

\* a suspend request was rejected as a duplicate for a rule whose task is
\* live and fires
C18_Witness ==
    /\ last.op = "suspend"
    /\ last.status = 400
    /\ last.err = "AlreadySuspended"
    /\ last.id \in live \ suspended
    /\ rules[last.id].is_suspended

\* the action invoke_action was asked to run exists and its source is a sole
\* well-formed `async def action(...)`
InvokedActionIsValid ==
    /\ ActionOf(rules, last.id).present
    /\ CleanActionSource(ActionOf(rules, last.id).action_code, utils)

InvokeKeepsTasksAndSkipsFailedCompile ==
    last.op = "invoke"
        => /\ live = last.liveBefore
           /\ last.status = 404 <=> ~ActionOf(rules, last.id).present
           /\ last.err \notin {"none", "RunFailed"} => last.runs = 0

(***************************************************************************)
(* Properties of the namespace a compile call builds                       *)
(***************************************************************************)
\* a compile entry point has returned and had come to build its namespace
NamespaceBuilt == call.op \in CompileOps /\ Reached(call.result, "namespace")

\* the namespace holds none of the names earlier calls defined and no type
\* that is not registered at the time of the call
FreshForRegistry ==
    /\ DOMAIN call.namespace \cap call.earlier = {}
    /\ \A util_type \in PluginTypes \ utils : \A n \in DOMAIN call.namespace :
          call.namespace[n] # TypeObject(util_type)

TriggerStepOrder ==
    On("trigger", <<"extract">> \o TraceLookup \o <<"returns", "parameters">>)
        \o <<<<"engine", "install">>>>

IsPrefix(s, t) == Len(s) <= Len(t) /\ SubSeq(t, 1, Len(s)) = s

\* the install steps were taken on the drawn trigger source
TriggerStepsTaken == call.op = "install_from_classification"

LoggedAsInstalled(log) == {log[i].rule_id : i \in {j \in DOMAIN log : log[j].err = "none"}}

\* a step is taken on the trigger source only after the action source has
\* passed its last check
ActionFirst(steps) ==
    \A k \in DOMAIN steps :
        steps[k][1] = "trigger"
            => \E j \in 1..(k - 1) : steps[j] = <<"action", "parameters">>

\* C22: an install request that fails, and a round of auto-install that
\* fails, submits nothing: the engine's live task ids and the suspended state
\* of every task are as before; and when the action source fails, no step is
\* taken on the trigger source.
C22_FailedInstallSubmitsNothing ==
    [][/\ (last'.op = "install" /\ last'.status # 200)
             => /\ live' = live
                /\ suspended' = suspended
                /\ ActionFirst(last'.steps)
                /\ last'.stage = "compile_action"
                      => /\ last'.steps # <<>>
                         /\ \A k \in DOMAIN last'.steps : last'.steps[k][1] = "action"
       /\ last'.op = "auto_install"
             => /\ live' = live \cup LoggedAsInstalled(last'.log)
                /\ suspended' \subseteq LoggedAsInstalled(last'.log)
                /\ \A i \in DOMAIN last'.log : ActionFirst(last'.log[i].steps)]_vars

\* an install request for a persisted rule failed at the compilation of its
\* action
C22_Witness ==
    /\ last.op = "install"
    /\ last.status = 500
    /\ last.stage = "compile_action"
    /\ last.id \in DOMAIN rules
    /\ last.steps # <<>>
    /\ \A k \in DOMAIN last.steps : last.steps[k][1] = "action"

(***************************************************************************)
(* Properties of the nullable-timestamp spellings                          *)
(***************************************************************************)
\* compile_time_provider was called on `def trigger() -> R: ...` with R
\* written as text
TimeProviderCalledOn(text) ==
    /\ call.op = "compile_time_provider"
    /\ call.code = Source(FALSE, <<TriggerDef(<<>>, text)>>)

\* C23: a parameterless trigger source annotated `datetime | None`,
\* `datetime|None` or `Optional[datetime]` compiles through
\* compile_time_provider: evaluating the definition in the safe namespace
\* raises nothing and the call returns a routine.
C23_NullableSpellingsCompile ==
    \A text \in {TextDatetimeOrNone, TextDatetimeOrNoneTight, TextOptionalDatetime} :
        TimeProviderCalledOn(text)
            => /\ ~Exec(call.code, _get_safe_namespace(utils)).raised
               /\ call.result.kind = "routine"

\* what the code does with them: the two spellings with a bar evaluate and
\* are rejected by the only-functions check; Optional is no name of the
\* namespace, so the third raises NameError when the definition is evaluated
NullableSpellingsFailApart ==
    /\ \A text \in {TextDatetimeOrNone, TextDatetimeOrNoneTight} :
          TimeProviderCalledOn(text)
              => /\ ~Exec(call.code, _get_safe_namespace(utils)).raised
                 /\ call.result.err = "NonFunctionTopLevel"
    /\ TimeProviderCalledOn(TextOptionalDatetime)
          => /\ Exec(call.code, _get_safe_namespace(utils)).raised
             /\ call.result.err = "ExecutionFailed"
             /\ call.result.trace = TraceExec

(***************************************************************************)
(* Properties of the suspended state                                       *)
(***************************************************************************)
\* the install steps would succeed for the persisted rule rule_id, were its
\* sources to compile
InstallWouldSucceed(rule_id, kind) == SubmissionOf(rule_id, kind).err = "none"

\* the submission step carries the flag: when it succeeds for a rule whose
\* persisted flag is suspended, the task of that rule is live and suspended
\* in the engine; when the flag is not suspended no suspend call is made and
\* the task is live and not suspended; the suspended state of the other
\* tasks is as before.
SubmissionCarriesPersistedFlag ==
    \A rule_id \in DOMAIN rules : \A kind \in {"trigger", "timer"} :
        InstallWouldSucceed(rule_id, kind)
            => /\ rule_id \in SubmissionOf(rule_id, kind).live
               /\ rules[rule_id].is_suspended
                     <=> rule_id \in SubmissionOf(rule_id, kind).suspended
               /\ rules[rule_id].is_suspended
                     <=> \E k \in DOMAIN SubmissionOf(rule_id, kind).steps :
                            SubmissionOf(rule_id, kind).steps[k] = <<"engine", "suspend">>
               /\ SubmissionOf(rule_id, kind).suspended \ {rule_id} = suspended \ {rule_id}

C26_FailedToggleLeavesFlag ==
    [][(last'.op \in {"suspend", "resume"} /\ last'.err = "EngineFailed")
          => /\ last'.status >= 400
             /\ rules' = rules]_vars

\* what the code does then: the request is answered 500, the flag keeps the
\* value the request committed, and the engine's suspended tasks are as
\* before
FailedToggleKeepsCommit ==
    [][(last'.op \in {"suspend", "resume"} /\ last'.err = "EngineFailed")
          => /\ last'.status = 500
             /\ rules'[last'.id].is_suspended = (last'.op = "suspend")
             /\ rules[last'.id].is_suspended = (last'.op = "resume")
             /\ suspended' = suspended
             /\ live' = live]_vars

\* every request received has been answered, and none by an error of the
\* engine
AllAnswered ==
    /\ inflight # <<>>
    /\ \A i \in DOMAIN inflight : inflight[i].pc = "done" /\ inflight[i].status # 500

\* the engine and the records agree on every installed rule that has a record
EngineAgreesWithFlags ==
    \A rule_id \in live \cap DOMAIN rules :
        rule_id \in suspended <=> rules[rule_id].is_suspended

\* C25: once every suspend and resume request in flight has completed, the
\* engine's suspended state of the task of every installed rule that has a
\* record equals the persisted flag of the rule, however the statements of
\* the requests were interleaved.
C25_EngineAgreesAfterConcurrentToggles == AllAnswered => EngineAgreesWithFlags

\* what holds: the two agree when no request was in flight while another was
EngineAgreesAfterSerialToggles ==
    (AllAnswered /\ \A i \in DOMAIN inflight : ~inflight[i].overlapped)
        => EngineAgreesWithFlags

(***************************************************************************)
(* Properties of the startup order                                         *)
(***************************************************************************)
\* the step of lifespan that ends startup
StartupCompletes == phase # "serving" /\ phase' = "serving"

\* C27: auto-install compiles the persisted rules only after every plugin
\* that startup loads has been registered (no plugin joins the registry
\* between auto-install and the end of startup), and so every persisted rule
\* that is well-formed for the registry of the completed startup is live
\* under its rule id when startup completes.
C27_AutoInstallAfterEveryStartupPlugin ==
    [][StartupCompletes =>
          /\ last.op = "auto_install"
          /\ utils' = utils
          /\ \A rule_id \in DOMAIN rules' :
                ValidRule(rules'[rule_id], utils') => rule_id \in live']_vars

\* what holds: the server's own plugin is registered when auto-install
\* compiles, and the plugins of the database are registered after it
OnlyServerPluginBeforeAutoInstall ==
    [][/\ phase = "startup" => utils = {ServerCosmoUtils}
       /\ StartupCompletes => last.op = "auto_install" /\ utils \subseteq utils']_vars

(***************************************************************************)
(* Properties of the install of a rule persisted as suspended              *)
(***************************************************************************)
OnlyInstalls == \A i \in DOMAIN inflight : inflight[i].op = "install"

\* the tasks that are live, not suspended, and of a rule persisted as
\* suspended
RunningThoughSuspended ==
    {rule_id \in live \cap DOMAIN rules :
        rules[rule_id].is_suspended /\ rule_id \notin suspended}

\* C28: a rule persisted as suspended never has a live task that is not
\* suspended: neither between the submission of an install and its suspend
\* call, nor after a suspend call of an install that failed.
C28_SuspendedRuleNeverRuns == OnlyInstalls => RunningThoughSuspended = {}

\* what holds: once every install has been answered without error, no rule
\* persisted as suspended has a running task, and an install of a rule not
\* persisted as suspended is answered at the submission, without suspend call
InstalledSuspendedOnceAnswered ==
    /\ (OnlyInstalls /\ \A i \in DOMAIN inflight : inflight[i].status = 200)
          => RunningThoughSuspended = {}
    /\ OnlyInstalls =>
          \A i \in DOMAIN inflight :
              inflight[i].pc = "engine" => rules[inflight[i].id].is_suspended

(***************************************************************************)
(* Properties of the classification against the compile functions          *)
(***************************************************************************)
TimerTexts == {TextDatetimeOrNone, TextDatetimeOrNoneTight, TextOptionalDatetime}

\* the compile function for kind accepts the return annotation return_type
Accepts(kind, return_type) ==
    /\ return_type.found
    /\ \/ kind = "trigger" /\ return_type.text = TextAbstractCondition
       \/ kind = "timer" /\ return_type.text \in TimerTexts

\* the drawn source was evaluated and defines a callable `trigger`
TriggerEvaluable ==
    /\ ~Exec(call.code, _get_safe_namespace(utils)).raised
    /\ "trigger" \in DOMAIN Exec(call.code, _get_safe_namespace(utils)).ns
    /\ Callable(Exec(call.code, _get_safe_namespace(utils)).ns["trigger"])

\* what the annotation checks of the two compile functions answer for the
\* drawn source
AnnotationChecked(kind) ==
    IF kind = "trigger"
    THEN TriggerChecked(call.code, utils, _get_safe_namespace(utils),
                        Exec(call.code, _get_safe_namespace(utils)).ns["trigger"],
                        _extract_return_type_annotation(call.code, "trigger"))
    ELSE TimeProviderChecked(call.code, utils, _get_safe_namespace(utils),
                             Exec(call.code, _get_safe_namespace(utils)).ns["trigger"],
                             _extract_return_type_annotation(call.code, "trigger"))

\* C29: the install steps submit a rule only if the return annotation
\* extracted from its trigger source is exactly an accepted text of the
\* submitted kind (`AbstractCondition` for a trigger rule, one of the three
\* nullable-timestamp texts for a timer rule); when the classification
\* returns a kind whose compile function does not accept the annotation,
\* install fails and submits nothing; and the annotation check of each
\* compile function passes exactly the texts of its kind.
C29_SubmittedKindAgreesWithAnnotation ==
    TriggerStepsTaken
        => /\ (\E i \in DOMAIN call.result.trace : call.result.trace[i][1] = "engine")
                 => /\ call.result.kind \in {"trigger", "timer"}
                    /\ Accepts(call.result.kind,
                               _extract_return_type_annotation(call.code, "trigger"))
           /\ \A kind \in {"trigger", "timer"} :
                 (/\ detect_rule_type(call.code).kind = kind
                  /\ ~Accepts(kind, _extract_return_type_annotation(call.code, "trigger")))
                     => /\ call.result.kind = "error"
                        /\ \A i \in DOMAIN call.result.trace :
                              call.result.trace[i][1] # "engine"
           /\ \A kind \in {"trigger", "timer"} :
                 TriggerEvaluable
                     => (Accepts(kind, _extract_return_type_annotation(call.code,
                                                                         "trigger"))
                           <=> AnnotationChecked(kind).err # "UnrecognizedReturnType")

\* the install steps were taken on a trigger source whose annotation holds
\* `AbstractCondition` without being it: classified as a trigger rule,
\* refused by the annotation check of compile_trigger_function, install
\* failed and nothing was submitted
C29_Witness ==
    /\ TriggerStepsTaken
    /\ detect_rule_type(call.code).kind = "trigger"
    /\ ~Accepts("trigger", _extract_return_type_annotation(call.code, "trigger"))
    /\ TriggerEvaluable
    /\ AnnotationChecked("trigger").err = "UnrecognizedReturnType"
    /\ call.result.kind = "error"

(***************************************************************************)
(* Properties of the sources shown by the list                             *)
(***************************************************************************)
ListShown == last.op = "list" /\ last.status = 200

InstalledEntries == {i \in DOMAIN last.view : last.view[i].view = "installed"}

\* C30: for every installed entry of the list, the trigger source and the
\* action code shown are the sources from which the live task of that id was
\* compiled, after any install, uninstall and update of a rule or an action.
C30_ListShowsCompiledSources ==
    ListShown
        => \A i \in InstalledEntries :
              /\ last.view[i].rule_id \in DOMAIN compiled
              /\ last.view[i].trigger = compiled[last.view[i].rule_id].trigger
              /\ last.view[i].action = compiled[last.view[i].rule_id].action

\* what holds: the sources shown are those of the record as it is when the
\* list is answered, and the task of the id is live
ListShowsRecordSources ==
    ListShown
        => \A i \in InstalledEntries :
              /\ last.view[i].rule_id \in live \cap DOMAIN rules
              /\ last.view[i].trigger = rules[last.view[i].rule_id].trigger
              /\ last.view[i].action = rules[last.view[i].rule_id].action

\* and an update of a rule or an action leaves the engine and the routines
\* of its tasks as they are
UpdateLeavesTasks ==
    [][last'.op \in {"update_rule", "update_action"}
          => live' = live /\ suspended' = suspended /\ compiled' = compiled]_vars

====
